---- MODULE Spec2Model ----
(***************************************************************************)
(* Model of the backend of mwwazup/cfo-app-azure-di.                       *)
(*                                                                         *)
(* The document-analysis pipeline exists twice in the repository:          *)
(*   api/document_analysis_complete.py  ("Complete": exact alias mapper,   *)
(*                                       row-wise table extractor, mock    *)
(*                                       fallback)                         *)
(*   api/document_analysis.py           ("Mounted": the router main.py     *)
(*                                       includes; keyword filter,         *)
(*                                       cell-wise content extractor)      *)
(* Both are modelled, operator by operator, on Python values.              *)
(*                                                                         *)
(* Python values are tagged records, so that values of different Python    *)
(* types can be compared:                                                  *)
(*   None, Str(chars), Num(float), List(seq), Dict(items), Obj(attrs)      *)
(* A str is a sequence of one-character strings.  An object is a record of *)
(* its attributes: an attribute the object does not have is not in the     *)
(* record's domain (hasattr is false, reading it raises AttributeError);   *)
(* an attribute that is present and null has the value None.               *)
(* A number is a float, held exactly as a decimal n/d, nan or +-inf; the    *)
(* numbers of the upstream result are taken to be floats (str(0.0) is      *)
(* "0.0").                                                                 *)
(***************************************************************************)
EXTENDS Integers, Sequences, FiniteSets, TLC

VARIABLES
    raw,          \* the upstream analysis result of the request
    completeOut,  \* outcome of document_analysis_complete._process_azure_result
    mountedOut,   \* outcome of document_analysis._process_azure_result
    request,           \* the POST /api/documentAnalysis request and its environment
    completeResponse,  \* outcome of document_analysis_complete.analyze_document
    mountedResponse,   \* outcome of document_analysis.analyze_document
    completeAgain,  \* outcome of a second run of the complete module on raw
    mountedAgain,   \* outcome of a second run of the mounted module on raw
    env,                  \* os.environ: SKIP_DB and SKIP_SERVICE_CHECKS
    MEM_STATEMENTS,       \* financial._MEM_STATEMENTS: id -> record
    financial_statements, \* the financial_statements table: id -> row
    uploads,              \* the files under uploads/: path -> contents
    uuids,                \* how many uuid4 values have been drawn
    clock,                \* requests handled so far (datetime.utcnow)
    finRequest,           \* the last /financial request, with the user it resolved to
    finResponse,          \* the response to finRequest
    returned_ids,         \* <<token, id>> of every upload that answered 200
    stored_before,        \* the statements as they were before finRequest
    parse_results,        \* id -> parsed_data of the last parse that answered 200
    upload_contents,      \* id -> the contents uploaded for the statement
    zep,                  \* the memories of the memory service: id -> memory
    zep_put,              \* what a PUT of the memory service does with absent keys
    zep_calls,            \* the calls the last /memory request made to the service
    memRequest,           \* the last /memory request, with the user it resolved to
    memResponse,          \* the response to memRequest
    creators,             \* id -> the user whose create_memory request made the memory
    auth_users,           \* the users of the identity provider
    users,                \* the users table
    signupRequest,        \* the last POST /auth/signup, with what its calls did
    signupResponse,       \* the response to signupRequest
    NEO4J_ENV,            \* whether NEO4J_URI, NEO4J_USERNAME and NEO4J_PASSWORD are all set
    Neo4jClient_driver,   \* Neo4jClient._driver
    drivers,              \* how many drivers GraphDatabase.driver has constructed
    driver_calls          \* the outcome of every get_driver and close_driver call

requestVars == <<request, completeResponse, mountedResponse>>

rerunVars == <<completeAgain, mountedAgain>>

finVars ==
    <<env, MEM_STATEMENTS, financial_statements, uploads, uuids, clock,
      finRequest, finResponse, returned_ids, stored_before, parse_results,
      upload_contents>>

memVars == <<zep, zep_put, zep_calls, memRequest, memResponse, creators>>

authVars == <<auth_users, users, signupRequest, signupResponse>>

neo4jVars == <<NEO4J_ENV, Neo4jClient_driver, drivers, driver_calls>>

serviceVars == <<memVars, authVars, neo4jVars>>

vars == <<raw, completeOut, mountedOut, requestVars, rerunVars, finVars, serviceVars>>

-----------------------------------------------------------------------------
(* Python values *)

None == [t |-> "none"]
Str(s) == [t |-> "str", s |-> s]
Num(x) == [t |-> "num", x |-> x]
List(l) == [t |-> "list", l |-> l]
Dict(items) == [t |-> "dict", items |-> items]
Obj(a) == [t |-> "obj", a |-> a]

\* hasattr(v, name)
HasAttr(v, name) == v.t = "obj" /\ name \in DOMAIN v.a

\* v.name, for an attribute the object has
Attr(v, name) == v.a[name]

\* getattr(v, name, default)
GetAttr(v, name, default) == IF HasAttr(v, name) THEN Attr(v, name) ELSE default

\* floats: a finite decimal n/d (d a power of ten, no trailing zero digit
\* in n unless d = 1), nan, or a signed infinity
Fin(n, d) == [f |-> "fin", n |-> n, d |-> d]
NaN == [f |-> "nan"]
Inf(sgn) == [f |-> "inf", sgn |-> sgn]

RECURSIVE Norm(_, _)
Norm(n, d) == IF d > 1 /\ n % 10 = 0 THEN Norm(n \div 10, d \div 10) ELSE Fin(n, d)

IsFinite(x) == x.f = "fin"

\* bool(v)
Truthy(v) ==
    CASE v.t = "none" -> FALSE
      [] v.t = "str" -> v.s # <<>>
      [] v.t = "num" -> ~(v.x.f = "fin" /\ v.x.n = 0)
      [] v.t = "list" -> v.l # <<>>
      [] v.t = "dict" -> v.items # <<>>
      [] OTHER -> TRUE

\* isinstance(v, (int, float))
IsNumber(v) == v.t = "num"

-----------------------------------------------------------------------------
(* str methods *)

UpperLetters == <<"A","B","C","D","E","F","G","H","I","J","K","L","M",
                  "N","O","P","Q","R","S","T","U","V","W","X","Y","Z">>
LowerLetters == <<"a","b","c","d","e","f","g","h","i","j","k","l","m",
                  "n","o","p","q","r","s","t","u","v","w","x","y","z">>
DigitChars == <<"0","1","2","3","4","5","6","7","8","9">>

Range(q) == {q[i] : i \in DOMAIN q}

LowerChar(c) ==
    IF c \in Range(UpperLetters)
    THEN LowerLetters[CHOOSE i \in DOMAIN UpperLetters : UpperLetters[i] = c]
    ELSE c

\* str.lower()
Lower(s) == [i \in DOMAIN s |-> LowerChar(s[i])]

IsSpace(c) == c = " "
IsDigit(c) == c \in Range(DigitChars)
DigitVal(c) == (CHOOSE i \in DOMAIN DigitChars : DigitChars[i] = c) - 1

RECURSIVE LStrip(_)
LStrip(s) == IF s # <<>> /\ IsSpace(Head(s)) THEN LStrip(Tail(s)) ELSE s

RECURSIVE RStrip(_)
RStrip(s) ==
    IF s # <<>> /\ IsSpace(s[Len(s)]) THEN RStrip(SubSeq(s, 1, Len(s) - 1)) ELSE s

\* str.strip()
Strip(s) == RStrip(LStrip(s))

\* str.replace(c, ''), for a one-character c
RECURSIVE Remove(_, _)
Remove(s, c) ==
    IF s = <<>> THEN <<>>
    ELSE IF Head(s) = c THEN Remove(Tail(s), c)
    ELSE <<Head(s)>> \o Remove(Tail(s), c)

\* sub in s
Contains(s, sub) ==
    \E i \in 1..(Len(s) - Len(sub) + 1) : SubSeq(s, i, i + Len(sub) - 1) = sub

\* any(term in s for term in terms)
ContainsAny(s, terms) == \E i \in DOMAIN terms : Contains(s, terms[i])

-----------------------------------------------------------------------------
(* float(str) and str(float) *)

ValueError == [f |-> "ValueError"]

RECURSIVE Pow10(_)
Pow10(k) == IF k = 0 THEN 1 ELSE 10 * Pow10(k - 1)

RECURSIVE DigitsValue(_)
DigitsValue(s) ==
    IF s = <<>> THEN 0 ELSE 10 * DigitsValue(SubSeq(s, 1, Len(s) - 1)) + DigitVal(s[Len(s)])

AllDigits(s) == \A i \in DOMAIN s : IsDigit(s[i])

\* the decimal part of a float literal: digits [ "." digits ] or "." digits
IsDecimal(s) ==
    LET dots == {i \in DOMAIN s : s[i] = "."}
    IN  /\ Cardinality(dots) <= 1
        /\ AllDigits(Remove(s, "."))
        /\ Remove(s, ".") # <<>>

\* the exponent of a float literal: [sign] digits
IsExponent(s) ==
    LET body == IF s # <<>> /\ Head(s) \in {"+", "-"} THEN Tail(s) ELSE s
    IN  body # <<>> /\ AllDigits(body)

ExponentValue(s) ==
    IF Head(s) = "-" THEN 0 - DigitsValue(Tail(s))
    ELSE IF Head(s) = "+" THEN DigitsValue(Tail(s))
    ELSE DigitsValue(s)

\* value of mantissa m (IsDecimal) times ten to the e, times sgn
DecimalValue(m, e, sgn) ==
    LET dot == IF \E i \in DOMAIN m : m[i] = "."
               THEN CHOOSE i \in DOMAIN m : m[i] = "."
               ELSE Len(m) + 1
        fracLen == IF dot > Len(m) THEN 0 ELSE Len(m) - dot
        n == DigitsValue(Remove(m, "."))
        scale == e - fracLen
    IN  IF n = 0 THEN Fin(0, 1)
        ELSE IF scale >= 0 THEN Fin(sgn * n * Pow10(scale), 1)
        ELSE Norm(sgn * n, Pow10(0 - scale))

\* float(s) for a str s: surrounding whitespace is ignored; an optional sign;
\* then inf, infinity or nan in any case, or a decimal with an optional exponent
ParseFloat(s) ==
    LET body == Strip(s)
        signed == body # <<>> /\ Head(body) \in {"+", "-"}
        sgn == IF signed /\ Head(body) = "-" THEN -1 ELSE 1
        rest == IF signed THEN Tail(body) ELSE body
        low == Lower(rest)
        epos == {i \in DOMAIN low : low[i] = "e"}
        e1 == IF epos = {} THEN Len(low) + 1 ELSE CHOOSE i \in epos : \A j \in epos : i <= j
        mant == SubSeq(low, 1, e1 - 1)
        expo == SubSeq(low, e1 + 1, Len(low))
    IN  IF low = <<"n","a","n">> THEN NaN
        ELSE IF low \in {<<"i","n","f">>, <<"i","n","f","i","n","i","t","y">>} THEN Inf(sgn)
        ELSE IF epos = {} THEN
            (IF IsDecimal(low) THEN DecimalValue(low, 0, sgn) ELSE ValueError)
        ELSE IF IsDecimal(mant) /\ IsExponent(expo)
            THEN DecimalValue(mant, ExponentValue(expo), sgn)
        ELSE ValueError

RECURSIVE NatStr(_)
NatStr(n) ==
    IF n < 10 THEN <<DigitChars[n + 1]>>
    ELSE NatStr(n \div 10) \o <<DigitChars[(n % 10) + 1]>>

RECURSIVE ZeroPad(_, _)
ZeroPad(s, width) == IF Len(s) >= width THEN s ELSE ZeroPad(<<"0">> \o s, width)

RECURSIVE Log10(_)
Log10(d) == IF d = 1 THEN 0 ELSE 1 + Log10(d \div 10)

Abs(n) == IF n < 0 THEN 0 - n ELSE n

\* str(x) for a float x (repr: shortest decimal, at least one fraction digit)
FloatStr(x) ==
    CASE x.f = "nan" -> <<"n","a","n">>
      [] x.f = "inf" -> (IF x.sgn < 0 THEN <<"-">> ELSE <<>>) \o <<"i","n","f">>
      [] OTHER ->
           (IF x.n < 0 THEN <<"-">> ELSE <<>>)
           \o NatStr(Abs(x.n) \div x.d)
           \o <<".">>
           \o (IF x.d = 1 THEN <<"0">> ELSE ZeroPad(NatStr(Abs(x.n) % x.d), Log10(x.d)))

-----------------------------------------------------------------------------
(* String literals of the two modules *)

pnl_total_revenue ==
    <<"p","n","l","_","t","o","t","a","l","_","r","e","v","e","n","u","e">>
pnl_cost_of_goods_sold ==
    <<"p","n","l","_","c","o","s","t","_","o","f","_","g","o","o","d","s","_","s","o","l","d">>
pnl_gross_profit ==
    <<"p","n","l","_","g","r","o","s","s","_","p","r","o","f","i","t">>
pnl_operating_expenses ==
    <<"p","n","l","_","o","p","e","r","a","t","i","n","g","_","e","x","p","e","n","s","e","s">>
pnl_net_income ==
    <<"p","n","l","_","n","e","t","_","i","n","c","o","m","e">>
pnl_other_income ==
    <<"p","n","l","_","o","t","h","e","r","_","i","n","c","o","m","e">>
pnl_other_expenses ==
    <<"p","n","l","_","o","t","h","e","r","_","e","x","p","e","n","s","e","s">>

S_currency == <<"c","u","r","r","e","n","c","y">>
S_string == <<"s","t","r","i","n","g">>
S_content == <<"c","o","n","t","e","n","t">>
S_succeeded == <<"s","u","c","c","e","e","d","e","d">>
S_textElements == <<"t","e","x","t","E","l","e","m","e","n","t","s">>
S_utf16CodeUnit == <<"u","t","f","1","6","C","o","d","e","U","n","i","t">>
S_prebuilt_layout == <<"p","r","e","b","u","i","l","t","-","l","a","y","o","u","t">>
S_prebuilt_colon_layout == <<"p","r","e","b","u","i","l","t",":","l","a","y","o","u","t">>
S_PNL == <<"P","N","L">>
S_inch == <<"i","n","c","h">>
S_None == <<"N","o","n","e">>
S_createdDateTime ==
    <<"2","0","2","5","-","0","1","-","1","0","T","2","1",":","0","0",":","0","0","Z">>
S_lastUpdatedDateTime ==
    <<"2","0","2","5","-","0","1","-","1","0","T","2","1",":","0","0",":","0","5","Z">>
S_api_2023_07_31 == <<"2","0","2","3","-","0","7","-","3","1">>
S_api_2024_11_30 == <<"2","0","2","4","-","1","1","-","3","0">>
S_mock_content ==
    <<"M","o","c","k"," ","P","&","L"," ","d","o","c","u","m","e","n","t"," ",
      "c","o","n","t","e","n","t"," ","w","i","t","h"," ","r","e","v","e","n","u","e"," ",
      "a","n","d"," ","e","x","p","e","n","s","e"," ","d","a","t","a">>
S_Revenue == <<"R","e","v","e","n","u","e">>
S_100000_dollars == <<"$","1","0","0",",","0","0","0">>

\* Python number literals
PyInt(n) == Num(Fin(n, 1))
PyFloat(n, d) == Num(Norm(n, d))

-----------------------------------------------------------------------------
(* dict, in insertion order: a sequence of <<key, value>> pairs *)

DictKeys(items) == {items[i][1] : i \in DOMAIN items}

DictGet(items, k) == items[CHOOSE i \in DOMAIN items : items[i][1] = k][2]

\* d[k] = v
DictSet(items, k, v) ==
    IF k \in DictKeys(items)
    THEN [i \in DOMAIN items |-> IF items[i][1] = k THEN <<k, v>> ELSE items[i]]
    ELSE Append(items, <<k, v>>)

\* str(v)
PyStr(v) ==
    CASE v.t = "str" -> v.s
      [] v.t = "none" -> S_None
      [] v.t = "num" -> FloatStr(v.x)

-----------------------------------------------------------------------------
(* document_analysis_complete.py *)

\* lines 140-144
complete_word_data(word) ==
    [content |-> Attr(word, "content"),
     boundingBox |-> IF HasAttr(word, "polygon") THEN Attr(word, "polygon") ELSE List(<<>>),
     confidence |-> GetAttr(word, "confidence", PyFloat(10, 10))]

\* lines 149-152
complete_line_data(line) ==
    [content |-> Attr(line, "content"),
     boundingBox |-> IF HasAttr(line, "polygon") THEN Attr(line, "polygon") ELSE List(<<>>)]

\* the elements the loop "if hasattr(obj, name) and obj.name: for x in obj.name" visits
GuardedItems(obj, name) ==
    IF HasAttr(obj, name) /\ Truthy(Attr(obj, name)) THEN Attr(obj, name).l ELSE <<>>

\* an attribute read of the page loop raises AttributeError
complete_page_raises(page) ==
    \/ \E a \in {"page_number", "width", "height", "unit"} : ~HasAttr(page, a)
    \/ \E i \in DOMAIN GuardedItems(page, "words") :
           ~HasAttr(GuardedItems(page, "words")[i], "content")
    \/ \E i \in DOMAIN GuardedItems(page, "lines") :
           ~HasAttr(GuardedItems(page, "lines")[i], "content")

complete_page_data(page) ==
    [pageNumber |-> Attr(page, "page_number"),
     angle |-> GetAttr(page, "angle", PyInt(0)),
     width |-> Attr(page, "width"),
     height |-> Attr(page, "height"),
     unit |-> Attr(page, "unit"),
     words |-> List([i \in DOMAIN GuardedItems(page, "words") |->
                       complete_word_data(GuardedItems(page, "words")[i])]),
     lines |-> List([i \in DOMAIN GuardedItems(page, "lines") |->
                       complete_line_data(GuardedItems(page, "lines")[i])])]

\* the elements the loop "if obj.name: for x in obj.name" visits (obj has name)
TruthyItems(obj, name) == IF Truthy(Attr(obj, name)) THEN Attr(obj, name).l ELSE <<>>

complete_cell_raises(cell) ==
    \E a \in {"row_index", "column_index", "content"} : ~HasAttr(cell, a)

complete_cell_data(cell) ==
    [kind |-> GetAttr(cell, "kind", Str(S_content)),
     rowIndex |-> Attr(cell, "row_index"),
     columnIndex |-> Attr(cell, "column_index"),
     content |-> Attr(cell, "content"),
     boundingRegions |-> List(<<
         [pageNumber |-> PyInt(1),
          boundingBox |-> IF HasAttr(cell, "polygon") THEN Attr(cell, "polygon")
                          ELSE List(<<>>)] >>)]

complete_table_raises(table) ==
    \/ \E a \in {"row_count", "column_count", "cells"} : ~HasAttr(table, a)
    \/ \E i \in DOMAIN TruthyItems(table, "cells") :
           complete_cell_raises(TruthyItems(table, "cells")[i])

complete_table_data(table) ==
    [rowCount |-> Attr(table, "row_count"),
     columnCount |-> Attr(table, "column_count"),
     cells |-> List([i \in DOMAIN TruthyItems(table, "cells") |->
                       complete_cell_data(TruthyItems(table, "cells")[i])]),
     boundingRegions |-> List(<<>>)]


\* lines 197-226: vendor alias -> canonical name, as <<alias, canonical>> pairs
pnl_field_mapping == <<
    <<<<"T","o","t","a","l","R","e","v","e","n","u","e">>, pnl_total_revenue>>,
    <<<<"R","e","v","e","n","u","e">>, pnl_total_revenue>>,
    <<<<"S","a","l","e","s">>, pnl_total_revenue>>,
    <<<<"G","r","o","s","s","R","e","v","e","n","u","e">>, pnl_total_revenue>>,
    <<<<"T","o","t","a","l","S","a","l","e","s">>, pnl_total_revenue>>,
    <<<<"C","o","s","t","O","f","G","o","o","d","s","S","o","l","d">>, pnl_cost_of_goods_sold>>,
    <<<<"C","O","G","S">>, pnl_cost_of_goods_sold>>,
    <<<<"C","o","s","t","O","f","S","a","l","e","s">>, pnl_cost_of_goods_sold>>,
    <<<<"G","r","o","s","s","P","r","o","f","i","t">>, pnl_gross_profit>>,
    <<<<"G","r","o","s","s","I","n","c","o","m","e">>, pnl_gross_profit>>,
    <<<<"O","p","e","r","a","t","i","n","g","E","x","p","e","n","s","e","s">>, pnl_operating_expenses>>,
    <<<<"O","p","E","x">>, pnl_operating_expenses>>,
    <<<<"T","o","t","a","l","E","x","p","e","n","s","e","s">>, pnl_operating_expenses>>,
    <<<<"N","e","t","I","n","c","o","m","e">>, pnl_net_income>>,
    <<<<"N","e","t","P","r","o","f","i","t">>, pnl_net_income>>,
    <<<<"N","e","t","E","a","r","n","i","n","g","s">>, pnl_net_income>>,
    <<<<"P","r","o","f","i","t","L","o","s","s">>, pnl_net_income>>,
    <<<<"O","t","h","e","r","I","n","c","o","m","e">>, pnl_other_income>>,
    <<<<"O","t","h","e","r","R","e","v","e","n","u","e">>, pnl_other_income>>,
    <<<<"O","t","h","e","r","E","x","p","e","n","s","e","s">>, pnl_other_expenses>>,
    <<<<"O","t","h","e","r","C","o","s","t","s">>, pnl_other_expenses>> >>

\* line 232 with the alias looked up whatever the case of the name
mapped_field_name_any_case(field_name) ==
    IF \E a \in DictKeys(pnl_field_mapping) : Lower(a) = Lower(field_name)
    THEN DictGet(pnl_field_mapping,
                 CHOOSE a \in DictKeys(pnl_field_mapping) : Lower(a) = Lower(field_name))
    ELSE Lower(field_name)

\* line 232: pnl_field_mapping.get(field_name, field_name.lower())
mapped_field_name(field_name) ==
    IF field_name \in DictKeys(pnl_field_mapping)
    THEN DictGet(pnl_field_mapping, field_name)
    ELSE Lower(field_name)

\* last index of the run of characters of `chars` that starts at s[i] (i - 1 if none)
RECURSIVE SpanEnd(_, _, _)
SpanEnd(s, i, chars) ==
    IF i <= Len(s) /\ s[i] \in chars THEN SpanEnd(s, i + 1, chars) ELSE i - 1

\* line 240 with the pattern [\d,]+ : the fraction is left out of the match
numeric_match_integer(s) ==
    LET cls == Range(DigitChars) \cup {","}
        starts == {i \in DOMAIN s : s[i] \in cls}
    IN  IF starts = {} THEN None
        ELSE LET i == CHOOSE a \in starts : \A b \in starts : a <= b
             IN  Str(SubSeq(s, i, SpanEnd(s, i, cls)))

\* line 240: re.search(r'[\d,]+\.?\d*', s): the leftmost match, or None
numeric_match(s) ==
    LET cls == Range(DigitChars) \cup {","}
        starts == {i \in DOMAIN s : s[i] \in cls}
    IN  IF starts = {} THEN None
        ELSE LET i == CHOOSE a \in starts : \A b \in starts : a <= b
                 j == SpanEnd(s, i, cls)
                 k == IF j + 1 <= Len(s) /\ s[j + 1] = "." THEN j + 1 ELSE j
                 m == SpanEnd(s, k + 1, Range(DigitChars))
             IN  Str(SubSeq(s, i, m))

\* lines 235-245 with `field.value_number` tested for truth instead of
\* `is not None`: a value_number of 0 is passed over
complete_field_value_truthy(field) ==
    IF HasAttr(field, "value_number") /\ Truthy(Attr(field, "value_number"))
    THEN Attr(field, "value_number")
    ELSE IF HasAttr(field, "value_string") /\ Truthy(Attr(field, "value_string"))
    THEN LET m == numeric_match(Remove(PyStr(Attr(field, "value_string")), ","))
         IN  IF m # None THEN Num(ParseFloat(m.s)) ELSE Attr(field, "content")
    ELSE Attr(field, "content")

\* lines 235-245: the value of a document field
complete_field_value(field) ==
    IF HasAttr(field, "value_number") /\ Attr(field, "value_number") # None
    THEN Attr(field, "value_number")
    ELSE IF HasAttr(field, "value_string") /\ Truthy(Attr(field, "value_string"))
    THEN LET m == numeric_match(Remove(PyStr(Attr(field, "value_string")), ","))
         IN  IF m # None
             THEN (IF ParseFloat(m.s) # ValueError
                   THEN Num(ParseFloat(m.s))
                   ELSE Attr(field, "content"))
             ELSE Attr(field, "content")
    ELSE Attr(field, "content")

\* lines 247-252
complete_field_data(field) ==
    [type |-> IF IsNumber(complete_field_value(field)) THEN Str(S_currency) ELSE Str(S_string),
     value |-> complete_field_value(field),
     valueString |-> Str(PyStr(Attr(field, "content"))),
     confidence |-> Attr(field, "confidence")]

\* lines 228-252: the field loop, from the fields dict built so far
RECURSIVE complete_fields(_, _)
complete_fields(items, fields) ==
    IF items = <<>> THEN fields
    ELSE complete_fields(Tail(items),
             DictSet(fields, mapped_field_name(Head(items)[1]),
                     complete_field_data(Head(items)[2])))

\* an attribute read of the document loop raises AttributeError
complete_document_raises(document) ==
    \/ \E a \in {"doc_type", "confidence", "fields"} : ~HasAttr(document, a)
    \/ /\ Truthy(Attr(document, "fields"))
       /\ \E i \in DOMAIN Attr(document, "fields").items :
              \E a \in {"content", "confidence"} :
                  ~HasAttr(Attr(document, "fields").items[i][2], a)

\* lines 188-254
complete_doc_data(document) ==
    [docType |-> Attr(document, "doc_type"),
     boundingRegions |-> List(<<>>),
     fields |-> Dict(IF Truthy(Attr(document, "fields"))
                     THEN complete_fields(Attr(document, "fields").items, <<>>)
                     ELSE <<>>),
     confidence |-> Attr(document, "confidence")]

-----------------------------------------------------------------------------
(* document_analysis_complete._extract_pnl_from_tables *)

revenue_terms ==
    <<<<"r","e","v","e","n","u","e">>, <<"s","a","l","e","s">>, <<"i","n","c","o","m","e">>>>
S_net == <<"n","e","t">>
cogs_terms ==
    <<<<"c","o","s","t"," ","o","f"," ","g","o","o","d","s">>,
      <<"c","o","g","s">>,
      <<"c","o","s","t"," ","o","f"," ","s","a","l","e","s">>>>
S_gross_profit == <<"g","r","o","s","s"," ","p","r","o","f","i","t">>
operating_terms ==
    <<<<"o","p","e","r","a","t","i","n","g"," ","e","x","p","e","n","s","e">>,
      <<"t","o","t","a","l"," ","e","x","p","e","n","s","e">>>>
net_income_terms ==
    <<<<"n","e","t"," ","i","n","c","o","m","e">>,
      <<"n","e","t"," ","p","r","o","f","i","t">>,
      <<"n","e","t"," ","e","a","r","n","i","n","g","s">>>>

\* the keys of table_data, in insertion order: the row indices of the cells
\* in order of first appearance
RECURSIVE row_order(_, _)
row_order(cells, seen) ==
    IF cells = <<>> THEN seen
    ELSE row_order(Tail(cells),
                   IF Head(cells).rowIndex.x.n \in Range(seen) THEN seen
                   ELSE Append(seen, Head(cells).rowIndex.x.n))

\* lines 291-298: table_data[row_idx], column index -> stripped content (the
\* last cell listed for a position wins)
row_data(cells, row_idx) ==
    LET here == {i \in DOMAIN cells : cells[i].rowIndex.x.n = row_idx}
        cols == {cells[i].columnIndex.x.n : i \in here}
        last(c) == CHOOSE i \in here :
                       /\ cells[i].columnIndex.x.n = c
                       /\ \A j \in here : cells[j].columnIndex.x.n = c => j <= i
    IN  [c \in cols |-> Strip(cells[last(c)].content.s)]

\* line 307 without reverse=True: the columns in ascending order
RECURSIVE SortedAscending(_)
SortedAscending(S) ==
    IF S = {} THEN <<>>
    ELSE LET m == CHOOSE a \in S : \A b \in S : a <= b
         IN  <<m>> \o SortedAscending(S \ {m})

\* sorted(S, reverse=True)
RECURSIVE SortedReverse(_)
SortedReverse(S) ==
    IF S = {} THEN <<>>
    ELSE LET m == CHOOSE a \in S : \A b \in S : b <= a
         IN  <<m>> \o SortedReverse(S \ {m})

\* lines 306-314: the first column, in the order given, that is right of
\* column 0, is not blank and parses as a float; None if there is none
RECURSIVE scan_columns(_, _)
scan_columns(rd, cols) ==
    IF cols = <<>> THEN None
    ELSE IF Head(cols) > 0 /\ Strip(rd[Head(cols)]) # <<>>
    THEN LET value_str == Strip(Remove(Remove(rd[Head(cols)], "$"), ","))
         IN  IF ParseFloat(value_str) # ValueError
             THEN Num(ParseFloat(value_str))
             ELSE scan_columns(rd, Tail(cols))
    ELSE scan_columns(rd, Tail(cols))

\* lines 319-324 and its four copies
table_field(value) ==
    [type |-> Str(S_currency),
     value |-> value,
     valueString |-> Str(PyStr(value)),
     confidence |-> PyFloat(8, 10)]

\* lines 316-352 without the test `'net' not in label` of line 318
classify_row_net_as_revenue(fields, label, value) ==
    IF ContainsAny(label, revenue_terms)
    THEN DictSet(fields, pnl_total_revenue, table_field(value))
    ELSE IF ContainsAny(label, cogs_terms)
    THEN DictSet(fields, pnl_cost_of_goods_sold, table_field(value))
    ELSE IF Contains(label, S_gross_profit)
    THEN DictSet(fields, pnl_gross_profit, table_field(value))
    ELSE IF ContainsAny(label, operating_terms)
    THEN DictSet(fields, pnl_operating_expenses, table_field(value))
    ELSE IF ContainsAny(label, net_income_terms)
    THEN DictSet(fields, pnl_net_income, table_field(value))
    ELSE fields

\* lines 316-352: the if/elif chain on the row label
classify_row(fields, label, value) ==
    IF ContainsAny(label, revenue_terms) /\ ~Contains(label, S_net)
    THEN DictSet(fields, pnl_total_revenue, table_field(value))
    ELSE IF ContainsAny(label, cogs_terms)
    THEN DictSet(fields, pnl_cost_of_goods_sold, table_field(value))
    ELSE IF Contains(label, S_gross_profit)
    THEN DictSet(fields, pnl_gross_profit, table_field(value))
    ELSE IF ContainsAny(label, operating_terms)
    THEN DictSet(fields, pnl_operating_expenses, table_field(value))
    ELSE IF ContainsAny(label, net_income_terms)
    THEN DictSet(fields, pnl_net_income, table_field(value))
    ELSE fields

\* lines 302-352: one row of table_data
extract_row(fields, rd) ==
    IF 0 \in DOMAIN rd
    THEN LET value == scan_columns(rd, SortedReverse(DOMAIN rd))
         IN  IF value # None THEN classify_row(fields, Lower(rd[0]), value) ELSE fields
    ELSE fields

\* lines 301-352: the rows of table_data, in its insertion order
RECURSIVE extract_rows(_, _, _)
extract_rows(fields, cells, rows) ==
    IF rows = <<>> THEN fields
    ELSE extract_rows(extract_row(fields, row_data(cells, Head(rows))), cells, Tail(rows))

\* line 294: cell["content"].strip() raises for a content that is no str
table_data_raises(cells) == \E i \in DOMAIN cells : cells[i].content.t # "str"

\* lines 282-357: the tables in order; an exception ends the loop and what
\* was extracted so far is returned
RECURSIVE extract_tables(_, _)
extract_tables(fields, tables) ==
    IF tables = <<>> THEN fields
    ELSE LET cells == Head(tables).cells
         IN  IF ~Truthy(cells) THEN extract_tables(fields, Tail(tables))
             ELSE IF table_data_raises(cells.l) THEN fields
             ELSE extract_tables(
                      extract_rows(fields, cells.l, row_order(cells.l, <<>>)),
                      Tail(tables))

complete_extract_pnl_from_tables(tables) == Dict(extract_tables(<<>>, tables.l))


-----------------------------------------------------------------------------
(* document_analysis_complete._process_azure_result *)

\* what a call of a handler or function ended with
NotRun == [kind |-> "none"]
Return(v) == [kind |-> "return", value |-> v]
RaiseHTTP(status) == [kind |-> "raise", status |-> status]

mock_bounding_box ==
    List(<<PyInt(0), PyInt(0), PyFloat(85, 10), PyInt(0),
           PyFloat(85, 10), PyInt(11), PyInt(0), PyInt(11)>>)

mock_field(value, confidence) ==
    [type |-> Str(S_currency),
     valueString |-> Str(NatStr(value)),
     value |-> PyInt(value),
     confidence |-> PyFloat(confidence, 100)]

mock_region == [pageNumber |-> PyInt(1), boundingBox |-> List(<<>>)]

mock_cell(column, text) ==
    [kind |-> Str(S_content),
     rowIndex |-> PyInt(0),
     columnIndex |-> PyInt(column),
     content |-> Str(text),
     boundingRegions |-> List(<<mock_region>>)]

\* lines 370-464
get_mock_response_data ==
    [status |-> Str(S_succeeded),
     createdDateTime |-> Str(S_createdDateTime),
     lastUpdatedDateTime |-> Str(S_lastUpdatedDateTime),
     analyzeResult |->
       [apiVersion |-> Str(S_api_2023_07_31),
        modelId |-> Str(S_prebuilt_layout),
        stringIndexType |-> Str(S_textElements),
        content |-> Str(S_mock_content),
        pages |-> List(<<
            [pageNumber |-> PyInt(1), angle |-> PyInt(0), width |-> PyFloat(85, 10),
             height |-> PyInt(11), unit |-> Str(S_inch),
             words |-> List(<<>>), lines |-> List(<<>>)] >>),
        tables |-> List(<<
            [rowCount |-> PyInt(5), columnCount |-> PyInt(2),
             cells |-> List(<<mock_cell(0, S_Revenue), mock_cell(1, S_100000_dollars)>>),
             boundingRegions |-> List(<<mock_region>>)] >>),
        keyValuePairs |-> List(<<>>),
        documents |-> List(<<
            [docType |-> Str(S_prebuilt_colon_layout),
             boundingRegions |-> List(<<
                 [pageNumber |-> PyInt(1), boundingBox |-> mock_bounding_box] >>),
             fields |-> Dict(<<
                 <<pnl_total_revenue, mock_field(100000, 98)>>,
                 <<pnl_cost_of_goods_sold, mock_field(40000, 95)>>,
                 <<pnl_gross_profit, mock_field(60000, 97)>>,
                 <<pnl_operating_expenses, mock_field(35000, 96)>>,
                 <<pnl_net_income, mock_field(25000, 94)>>,
                 <<pnl_other_income, mock_field(2000, 90)>>,
                 <<pnl_other_expenses, mock_field(2000, 90)>> >>),
             confidence |-> PyFloat(95, 100)] >>)]]

\* the try block of lines 111-270 raises (an attribute that is read is absent)
complete_raises(result) ==
    \/ \E a \in {"model_id", "content", "pages", "tables", "documents"} :
           ~HasAttr(result, a)
    \/ \E i \in DOMAIN TruthyItems(result, "pages") :
           complete_page_raises(TruthyItems(result, "pages")[i])
    \/ \E i \in DOMAIN TruthyItems(result, "tables") :
           complete_table_raises(TruthyItems(result, "tables")[i])
    \/ \E i \in DOMAIN TruthyItems(result, "documents") :
           complete_document_raises(TruthyItems(result, "documents")[i])

\* lines 113-254: analyze_result after the page, table and document loops
complete_analyze_result(result) ==
    [apiVersion |-> Str(S_api_2023_07_31),
     modelId |-> Attr(result, "model_id"),
     stringIndexType |-> Str(S_textElements),
     content |-> IF Truthy(Attr(result, "content")) THEN Attr(result, "content")
                 ELSE Str(<<>>),
     pages |-> List([i \in DOMAIN TruthyItems(result, "pages") |->
                       complete_page_data(TruthyItems(result, "pages")[i])]),
     tables |-> List([i \in DOMAIN TruthyItems(result, "tables") |->
                       complete_table_data(TruthyItems(result, "tables")[i])]),
     keyValuePairs |-> List(<<>>),
     documents |-> List([i \in DOMAIN TruthyItems(result, "documents") |->
                       complete_doc_data(TruthyItems(result, "documents")[i])])]

\* lines 256-263 with a fields dict that outlives the request: the extractor
\* starts from the fields the other handler's request left behind
complete_synthetic_document_shared(tables) ==
    [docType |-> Str(S_prebuilt_colon_layout),
     fields |-> Dict(extract_tables(
                    IF mountedOut.kind = "return"
                    THEN mountedOut.value.analyzeResult.documents.l[1].fields.items
                    ELSE <<>>,
                    tables.l)),
     confidence |-> PyFloat(8, 10)]

\* lines 256-263: the synthetic document
complete_synthetic_document(tables) ==
    [docType |-> Str(S_prebuilt_colon_layout),
     fields |-> complete_extract_pnl_from_tables(tables),
     confidence |-> PyFloat(8, 10)]

\* lines 107-275: the returned dict (the mock data when the try block raised)
complete_process_azure_result(result) ==
    IF complete_raises(result) THEN Return(get_mock_response_data)
    ELSE LET analyze_result == complete_analyze_result(result)
         IN  Return(
              [status |-> Str(S_succeeded),
               createdDateTime |-> Str(S_createdDateTime),
               lastUpdatedDateTime |-> Str(S_lastUpdatedDateTime),
               analyzeResult |->
                   IF ~Truthy(analyze_result.documents)
                   THEN [analyze_result EXCEPT !.documents =
                            List(<<complete_synthetic_document(analyze_result.tables)>>)]
                   ELSE analyze_result])


-----------------------------------------------------------------------------
(* document_analysis.py (the router main.py includes) *)

\* x.name if hasattr(x, 'name') else default
AttrOr(x, name, default) == IF HasAttr(x, name) THEN Attr(x, name) ELSE default

\* lines 143-151
mounted_page_data(page) ==
    [pageNumber |-> AttrOr(page, "page_number", PyInt(1)),
     angle |-> AttrOr(page, "angle", PyInt(0)),
     width |-> AttrOr(page, "width", PyFloat(85, 10)),
     height |-> AttrOr(page, "height", PyInt(11)),
     unit |-> AttrOr(page, "unit", Str(S_inch)),
     words |-> List(<<>>),
     lines |-> List(<<>>)]

\* lines 166-172
mounted_cell_data(cell) ==
    [kind |-> AttrOr(cell, "kind", Str(S_content)),
     rowIndex |-> AttrOr(cell, "row_index", PyInt(0)),
     columnIndex |-> AttrOr(cell, "column_index", PyInt(0)),
     content |-> AttrOr(cell, "content", Str(<<>>)),
     boundingRegions |-> List(<<>>)]

\* line 165: "for cell in table.cells" raises TypeError when cells is no list
mounted_table_raises(table) ==
    HasAttr(table, "cells") /\ Attr(table, "cells").t # "list"

\* lines 157-175
mounted_table_data(table) ==
    [rowCount |-> AttrOr(table, "row_count", PyInt(0)),
     columnCount |-> AttrOr(table, "column_count", PyInt(0)),
     cells |-> List(IF HasAttr(table, "cells")
                    THEN [i \in DOMAIN Attr(table, "cells").l |->
                            mounted_cell_data(Attr(table, "cells").l[i])]
                    ELSE <<>>),
     boundingRegions |-> List(<<>>)]

\* lines 181-182: kvp.key and kvp.value are read without a guard
mounted_kvp_raises(kvp) == ~HasAttr(kvp, "key") \/ ~HasAttr(kvp, "value")

\* lines 180-184
mounted_kvp_data(kvp) ==
    [key |-> [content |-> AttrOr(Attr(kvp, "key"), "content", Str(<<>>))],
     value |-> [content |-> AttrOr(Attr(kvp, "value"), "content", Str(<<>>))],
     confidence |-> AttrOr(kvp, "confidence", PyFloat(5, 10))]

pnl_keywords ==
    <<<<"r","e","v","e","n","u","e">>,
      <<"i","n","c","o","m","e">>,
      <<"e","x","p","e","n","s","e">>,
      <<"c","o","s","t">>,
      <<"p","r","o","f","i","t">>,
      <<"l","o","s","s">>>>
period_keywords ==
    <<<<"p","e","r","i","o","d">>,
      <<"d","a","t","e">>,
      <<"r","e","p","o","r","t","i","n","g">>>>

\* a filter that knows the P&L keywords only
mounted_field_included_pnl_only(field_name) ==
    ContainsAny(Lower(field_name), pnl_keywords)

\* lines 195-196: the keyword filter on the vendor field name
mounted_field_included(field_name) ==
    \/ ContainsAny(Lower(field_name), pnl_keywords)
    \/ ContainsAny(Lower(field_name), period_keywords)

\* lines 197-203
mounted_field_data(field_value) ==
    [type |-> AttrOr(field_value, "value_type", Str(S_string)),
     value |-> IF HasAttr(field_value, "value") THEN Attr(field_value, "value")
               ELSE AttrOr(field_value, "content", Str(<<>>)),
     valueString |-> IF HasAttr(field_value, "value")
                     THEN Str(PyStr(Attr(field_value, "value")))
                     ELSE AttrOr(field_value, "content", Str(<<>>)),
     confidence |-> AttrOr(field_value, "confidence", PyFloat(5, 10)),
     content |-> IF HasAttr(field_value, "content") THEN Attr(field_value, "content")
                 ELSE IF HasAttr(field_value, "value")
                 THEN Str(PyStr(Attr(field_value, "value")))
                 ELSE Str(<<>>)]

\* lines 193-203: the fields of one document, into extracted_fields
RECURSIVE mounted_fields(_, _)
mounted_fields(items, extracted_fields) ==
    IF items = <<>> THEN extracted_fields
    ELSE mounted_fields(Tail(items),
             IF mounted_field_included(Head(items)[1])
             THEN DictSet(extracted_fields, Head(items)[1],
                          mounted_field_data(Head(items)[2]))
             ELSE extracted_fields)

\* line 191: the items the loop "if hasattr(doc, 'fields') and doc.fields" visits
mounted_doc_items(doc) ==
    IF HasAttr(doc, "fields") /\ Truthy(Attr(doc, "fields"))
    THEN Attr(doc, "fields").items ELSE <<>>

\* lines 190-203: the documents in order, into the one extracted_fields dict
RECURSIVE mounted_documents(_, _)
mounted_documents(documents, extracted_fields) ==
    IF documents = <<>> THEN extracted_fields
    ELSE mounted_documents(Tail(documents),
             mounted_fields(mounted_doc_items(Head(documents)), extracted_fields))

\* lines 240-246, as <<field_key, patterns>> pairs in the dict's order
pnl_patterns == <<
    <<pnl_total_revenue,
      << <<"t","o","t","a","l"," ","r","e","v","e","n","u","e">>,
         <<"r","e","v","e","n","u","e">>,
         <<"s","a","l","e","s">>,
         <<"t","o","t","a","l"," ","i","n","c","o","m","e">>,
         <<"i","n","c","o","m","e">> >> >>,
    <<pnl_cost_of_goods_sold,
      << <<"c","o","s","t"," ","o","f"," ","g","o","o","d","s"," ","s","o","l","d">>,
         <<"c","o","g","s">>,
         <<"c","o","s","t"," ","o","f"," ","s","a","l","e","s">> >> >>,
    <<pnl_gross_profit,
      << <<"g","r","o","s","s"," ","p","r","o","f","i","t">>,
         <<"g","r","o","s","s"," ","i","n","c","o","m","e">> >> >>,
    <<pnl_operating_expenses,
      << <<"o","p","e","r","a","t","i","n","g"," ","e","x","p","e","n","s","e","s">>,
         <<"e","x","p","e","n","s","e","s">>,
         <<"t","o","t","a","l"," ","e","x","p","e","n","s","e","s">> >> >>,
    <<pnl_net_income,
      << <<"n","e","t"," ","i","n","c","o","m","e">>,
         <<"n","e","t"," ","p","r","o","f","i","t">>,
         <<"p","r","o","f","i","t">>,
         <<"n","e","t"," ","e","a","r","n","i","n","g","s">> >> >> >>

\* lines 277-295: the first cell, in list order, of the target's row and of
\* another column whose content parses as a float; 0.0 if there is none
RECURSIVE find_adjacent(_, _)
find_adjacent(cells, target_cell) ==
    IF cells = <<>> THEN PyFloat(0, 1)
    ELSE IF /\ Head(cells).rowIndex = target_cell.rowIndex
            /\ Head(cells).columnIndex # target_cell.columnIndex
    THEN LET content == Strip(Remove(Remove(Head(cells).content.s, "$"), ","))
         IN  IF ParseFloat(content) # ValueError THEN Num(ParseFloat(content))
             ELSE find_adjacent(Tail(cells), target_cell)
    ELSE find_adjacent(Tail(cells), target_cell)

mounted_find_adjacent_value(table, target_cell) == find_adjacent(table.cells.l, target_cell)

\* digits with a comma before every group of three, as format(n, ',') writes them
RECURSIVE Grouped(_)
Grouped(digits) ==
    IF Len(digits) <= 3 THEN digits
    ELSE Grouped(SubSeq(digits, 1, Len(digits) - 3))
         \o <<",">> \o SubSeq(digits, Len(digits) - 2, Len(digits))

\* |x| in hundredths, rounded half to even.  The model's floats are exact
\* decimals: a decimal tie that the binary float is not (2.675) rounds here
\* as the tie, in Python as the binary value.
Hundredths(x) ==
    IF x.d <= 100 THEN Abs(x.n) * (100 \div x.d)
    ELSE LET q == Abs(x.n) \div (x.d \div 100)
             r == Abs(x.n) % (x.d \div 100)
         IN  IF 2 * r > x.d \div 100 \/ (2 * r = x.d \div 100 /\ q % 2 = 1)
             THEN q + 1 ELSE q

\* line 265: f"${value:,.2f}"
MoneyStr(x) ==
    CASE x.f = "nan" -> <<"$","n","a","n">>
      [] x.f = "inf" -> <<"$">> \o (IF x.sgn < 0 THEN <<"-">> ELSE <<>>) \o <<"i","n","f">>
      [] OTHER ->
           <<"$">> \o (IF x.n < 0 THEN <<"-">> ELSE <<>>)
           \o Grouped(NatStr(Hundredths(x) \div 100))
           \o <<".">> \o ZeroPad(NatStr(Hundredths(x) % 100), 2)

\* lines 260-266
content_field(value) ==
    [type |-> Str(S_currency),
     value |-> value,
     valueString |-> Str(PyStr(value)),
     confidence |-> PyFloat(7, 10),
     content |-> Str(MoneyStr(value.x))]

\* lines 254-267 for one cell: every field_key one of whose patterns is in the
\* cell's content is set to the adjacent value, if that value is truthy
RECURSIVE content_cell(_, _, _, _)
content_cell(extracted_fields, table, cell, patterns) ==
    IF patterns = <<>> THEN extracted_fields
    ELSE content_cell(
             IF /\ ContainsAny(Lower(cell.content.s), Head(patterns)[2])
                /\ Truthy(mounted_find_adjacent_value(table, cell))
             THEN DictSet(extracted_fields, Head(patterns)[1],
                          content_field(mounted_find_adjacent_value(table, cell)))
             ELSE extracted_fields,
             table, cell, Tail(patterns))

\* lines 250-267: the cells of one table, from cell i on
RECURSIVE content_cells(_, _, _)
content_cells(extracted_fields, table, i) ==
    IF i > Len(table.cells.l) THEN extracted_fields
    ELSE content_cells(
             content_cell(extracted_fields, table, table.cells.l[i], pnl_patterns),
             table, i + 1)

\* lines 249-267: the tables in order
RECURSIVE content_tables(_, _)
content_tables(extracted_fields, tables) ==
    IF tables = <<>> THEN extracted_fields
    ELSE content_tables(content_cells(extracted_fields, Head(tables), 1), Tail(tables))

\* lines 251 and 289: .lower() and .replace() raise for a content that is no str
mounted_extract_raises(analyze_result) ==
    \E i \in DOMAIN analyze_result.tables.l :
        \E j \in DOMAIN analyze_result.tables.l[i].cells.l :
            analyze_result.tables.l[i].cells.l[j].content.t # "str"

\* lines 233-274
mounted_extract_pnl_from_content(analyze_result) ==
    content_tables(<<>>, analyze_result.tables.l)

-----------------------------------------------------------------------------
(* document_analysis._process_azure_result *)

\* lines 129-185: analyze_result before the documents
mounted_analyze_result(result) ==
    [apiVersion |-> AttrOr(result, "api_version", Str(S_api_2024_11_30)),
     modelId |-> AttrOr(result, "model_id", Str(S_prebuilt_layout)),
     stringIndexType |-> Str(S_utf16CodeUnit),
     content |-> AttrOr(result, "content", Str(<<>>)),
     pages |-> List([i \in DOMAIN GuardedItems(result, "pages") |->
                       mounted_page_data(GuardedItems(result, "pages")[i])]),
     tables |-> List([i \in DOMAIN GuardedItems(result, "tables") |->
                       mounted_table_data(GuardedItems(result, "tables")[i])]),
     keyValuePairs |-> List([i \in DOMAIN GuardedItems(result, "key_value_pairs") |->
                       mounted_kvp_data(GuardedItems(result, "key_value_pairs")[i])]),
     documents |-> List(<<>>)]

\* lines 188-203
mounted_extracted_fields(result) ==
    mounted_documents(GuardedItems(result, "documents"), <<>>)

\* the try block of lines 125-226 raises
mounted_raises(result) ==
    \/ \E i \in DOMAIN GuardedItems(result, "tables") :
           mounted_table_raises(GuardedItems(result, "tables")[i])
    \/ \E i \in DOMAIN GuardedItems(result, "key_value_pairs") :
           mounted_kvp_raises(GuardedItems(result, "key_value_pairs")[i])
    \/ /\ mounted_extracted_fields(result) = <<>>
       /\ mounted_extract_raises(mounted_analyze_result(result))

\* lines 211-216
mounted_document_data(extracted_fields) ==
    [docType |-> Str(S_PNL),
     boundingRegions |-> List(<<
         [pageNumber |-> PyInt(1), boundingBox |-> mock_bounding_box] >>),
     fields |-> Dict(extracted_fields),
     confidence |-> PyFloat(85, 100)]

\* lines 121-230: the returned dict, or the HTTPException of line 230
mounted_process_azure_result(result) ==
    IF mounted_raises(result) THEN RaiseHTTP(500)
    ELSE LET analyze_result == mounted_analyze_result(result)
             extracted_fields ==
                 IF mounted_extracted_fields(result) = <<>>
                 THEN mounted_extract_pnl_from_content(analyze_result)
                 ELSE mounted_extracted_fields(result)
         IN  Return(
              [status |-> Str(S_succeeded),
               createdDateTime |-> Str(S_createdDateTime),
               lastUpdatedDateTime |-> Str(S_lastUpdatedDateTime),
               analyzeResult |->
                   [analyze_result EXCEPT !.documents =
                        List(<<mounted_document_data(extracted_fields)>>)]])

-----------------------------------------------------------------------------
(* Upstream results: the inputs of a request *)

T_m == <<"m">>
T_c == <<"c">>
T_w == <<"w">>
T_k == <<"k">>
T_x == <<"x">>
T_COGS == <<"C","O","G","S">>
T_Revenue == <<"R","e","v","e","n","u","e">>
T_revenue == <<"r","e","v","e","n","u","e">>
T_TotalRevenueYTD == <<"T","o","t","a","l","R","e","v","e","n","u","e","Y","T","D">>
T_Foo == <<"F","o","o">>
T_foo == <<"f","o","o">>
T_5000_dollars == <<"$","5",",","0","0","0">>
T_1234_50_dollars == <<"$","1",",","2","3","4",".","5","0">>
T_abc == <<"a","b","c">>
T_empty == <<>>
T_blank == <<" ">>
T_100000_dollars == <<"$","1","0","0",",","0","0","0">>
T_50000_dollars == <<"$","5","0",",","0","0","0">>
T_10000_dollars == <<"$","1","0",",","0","0","0">>
T_0_00_dollars == <<"$","0",".","0","0">>
T_nan == <<"n","a","n">>
T_minus_500 == <<"-","5","0","0">>
T_Net_Income == <<"N","e","t"," ","I","n","c","o","m","e">>
T_Gross_Profit == <<"G","r","o","s","s"," ","P","r","o","f","i","t">>
T_Total_Expenses == <<"T","o","t","a","l"," ","E","x","p","e","n","s","e","s">>
T_Notes == <<"N","o","t","e","s">>

T_Sales == <<"S","a","l","e","s">>
T_OpEx == <<"O","p","E","x">>
T_TotalRevenue == <<"T","o","t","a","l","R","e","v","e","n","u","e">>
T_Update == <<"U","p","d","a","t","e">>
T_glossary == <<"g","l","o","s","s","a","r","y">>
T_SALES == <<"S", "A", "L", "E", "S">>
T_Cost_of_Sales == <<"C", "o", "s", "t", " ", "o", "f", " ", "S", "a", "l", "e", "s">>
T_Net_Sales == <<"N", "e", "t", " ", "S", "a", "l", "e", "s">>
T_Gross_Profit_on_Sales == <<"G", "r", "o", "s", "s", " ", "P", "r", "o", "f", "i", "t", " ", "o", "n", " ", "S", "a", "l", "e", "s">>
T_Operating_Expenses == <<"O", "p", "e", "r", "a", "t", "i", "n", "g", " ", "E", "x", "p", "e", "n", "s", "e", "s">>
T_Net_Profit == <<"N", "e", "t", " ", "P", "r", "o", "f", "i", "t">>
T_Operating_Income == <<"O", "p", "e", "r", "a", "t", "i", "n", "g", " ", "I", "n", "c", "o", "m", "e">>

\* most fields of one document, most value columns of a row, most rows of a table
MaxFields == 2
MaxCol == 2
MaxRows == 2

\* an attribute the object is built without
Absent == [t |-> "absent"]

\* the object with the attributes of rec that are not Absent
Object(rec) == Obj([a \in {b \in DOMAIN rec : rec[b] # Absent} |-> rec[a]])

Polygon == List(<<PyFloat(0, 1), PyFloat(10, 10)>>)

WordOf(content, polygon, confidence) ==
    Object([content |-> content, polygon |-> polygon, confidence |-> confidence])

PageOf(angle, width, words, lines) ==
    Object([page_number |-> PyInt(1), angle |-> angle, width |-> width,
            height |-> PyInt(11), unit |-> Str(S_inch), words |-> words, lines |-> lines])

FullPage ==
    PageOf(PyInt(0), PyFloat(85, 10),
           List(<<WordOf(Str(T_w), Polygon, PyFloat(9, 10))>>),
           List(<<WordOf(Str(T_w), Polygon, Absent)>>))

\* pages with optional attributes left out or null
PageVariants ==
    {PageOf(angle, width, words, lines) :
        angle \in {Absent, PyInt(0)},
        width \in {Absent, PyFloat(85, 10)},
        words \in {Absent, None, List(<<>>),
                   List(<<WordOf(Str(T_w), Absent, Absent)>>),
                   List(<<WordOf(Absent, Polygon, PyFloat(9, 10))>>)},
        lines \in {Absent, List(<<WordOf(Str(T_w), Polygon, Absent)>>)}}

CellOf(kind, row, column, content) ==
    Object([kind |-> kind, row_index |-> PyInt(row), column_index |-> PyInt(column),
            content |-> content])

TableOf(row_count, cells) ==
    Object([row_count |-> row_count, column_count |-> PyInt(2), cells |-> cells])

\* two cells in the same row: Revenue | $100,000
RevenueTable ==
    TableOf(PyInt(1), List(<<CellOf(Str(S_content), 0, 0, Str(T_Revenue)),
                             CellOf(Str(S_content), 0, 1, Str(T_100000_dollars))>>))

\* tables and cells with optional attributes left out or null
TableVariants ==
    {TableOf(row_count, cells) :
        row_count \in {Absent, PyInt(1)},
        cells \in {Absent, None, List(<<>>)}
                  \cup {List(<<CellOf(kind, 0, 0, Str(T_Revenue)),
                               CellOf(kind, 0, 1, content)>>) :
                           kind \in {Absent, Str(S_content)},
                           content \in {Absent, None, Str(T_100000_dollars)}}}

KvpElements == {Absent, None, Obj(<<>>), Object([content |-> Str(T_k)])}

\* key-value pairs with optional attributes left out or null
KvpVariants ==
    {Object([key |-> key, value |-> value, confidence |-> confidence]) :
        key \in KvpElements, value \in KvpElements,
        confidence \in {Absent, PyFloat(7, 10)}}

FullKvp ==
    Object([key |-> Object([content |-> Str(T_k)]),
            value |-> Object([content |-> Str(T_k)]),
            confidence |-> PyFloat(7, 10)])

FieldOf(content, confidence, value_number, value_string, value_type) ==
    Object([content |-> content, confidence |-> confidence,
            value_number |-> value_number, value_string |-> value_string,
            value_type |-> value_type])

DocumentOf(doc_type, confidence, fields) ==
    Object([doc_type |-> doc_type, confidence |-> confidence, fields |-> fields])

\* one document with the field COGS = "$5,000"
CogsDocument ==
    DocumentOf(Str(T_x), PyFloat(9, 10),
               Dict(<< <<T_COGS, FieldOf(Str(T_5000_dollars), PyFloat(9, 10), Absent,
                                         Str(T_5000_dollars), Str(S_currency))>> >>))

\* documents and fields with optional attributes left out or null
DocumentVariants ==
    {DocumentOf(doc_type, confidence, fields) :
        doc_type \in {Absent, Str(T_x)},
        confidence \in {Absent, PyFloat(9, 10)},
        fields \in {Absent, None, Dict(<<>>)}
                   \cup {Dict(<< <<T_Revenue, FieldOf(content, fconf, Absent,
                                                     Str(T_5000_dollars), Absent)>> >>) :
                            content \in {Absent, None, Str(T_5000_dollars)},
                            fconf \in {Absent, None, PyFloat(9, 10)}}}

ResultOf(model_id, content, pages, tables, key_value_pairs, documents) ==
    Object([model_id |-> model_id, content |-> content, pages |-> pages,
            tables |-> tables, key_value_pairs |-> key_value_pairs,
            documents |-> documents])

\* every top-level attribute present, absent or null
TopLevelInputs ==
    {ResultOf(model_id, content, pages, tables, key_value_pairs, documents) :
        model_id \in {Absent, None, Str(T_m)},
        content \in {Absent, None, Str(T_c)},
        pages \in {Absent, None, List(<<FullPage>>)},
        tables \in {Absent, None, List(<<RevenueTable>>)},
        key_value_pairs \in {Absent, None, List(<<FullKvp>>)},
        documents \in {Absent, None, List(<<CogsDocument>>)}}

FullResult(pages, tables, key_value_pairs, documents) ==
    ResultOf(Str(T_m), Str(T_c), List(pages), List(tables), List(key_value_pairs),
             List(documents))

\* every top-level attribute present, one nested object with attributes
\* absent or null
NestedInputs ==
    {FullResult(<<p>>, <<RevenueTable>>, <<FullKvp>>, <<CogsDocument>>) :
        p \in PageVariants}
    \cup {FullResult(<<FullPage>>, <<t>>, <<FullKvp>>, <<CogsDocument>>) :
        t \in TableVariants}
    \cup {FullResult(<<FullPage>>, <<RevenueTable>>, <<k>>, <<CogsDocument>>) :
        k \in KvpVariants}
    \cup {FullResult(<<FullPage>>, <<RevenueTable>>, <<FullKvp>>, <<d>>) :
        d \in DocumentVariants}

FieldNames == {T_COGS, T_Revenue, T_revenue, T_TotalRevenueYTD, T_Foo, T_foo}

\* the sequences of at most k distinct field names
RECURSIVE NameSeqs(_)
NameSeqs(k) ==
    IF k = 0 THEN {<<>>}
    ELSE NameSeqs(k - 1)
         \cup {Append(p[1], p[2]) :
                 p \in {q \in NameSeqs(k - 1) \X FieldNames :
                          Len(q[1]) = k - 1 /\ q[2] \notin Range(q[1])}}

FieldShapes ==
    {FieldOf(Str(T_5000_dollars), PyFloat(9, 10), value_number, value_string, value_type) :
        value_number \in {Absent, None, PyFloat(0, 1), PyFloat(55, 10)},
        value_string \in {Absent, Str(T_empty), Str(T_1234_50_dollars), Str(T_abc),
                          Str(T_5000_dollars)},
        value_type \in {Absent, Str(S_currency)}}

\* one document whose fields all have the same shape, and the table
\* Revenue | $100,000
FieldInputs ==
    {FullResult(<<>>, <<RevenueTable>>, <<>>,
                <<DocumentOf(Str(T_x), PyFloat(9, 10),
                             Dict([i \in DOMAIN names |-> <<names[i], shape>>]))>>) :
        names \in NameSeqs(MaxFields), shape \in FieldShapes}

\* vendor names: aliases without a keyword of the mounted filter (COGS, Sales,
\* OpEx), an alias with one, names with a keyword inside a longer name, mixed
\* case and lower case, and a name with neither
KeywordNames ==
    {T_COGS, T_Sales, T_OpEx, T_TotalRevenue, T_TotalRevenueYTD, T_Update,
     T_glossary, T_Foo}

\* one document with one or two of these fields, each "$5,000", and no table
KeywordInputs ==
    {FullResult(<<>>, <<>>, <<>>,
                <<DocumentOf(Str(T_x), PyFloat(9, 10),
                             Dict([i \in DOMAIN names |->
                                     <<names[i],
                                       FieldOf(Str(T_5000_dollars), PyFloat(9, 10), Absent,
                                               Str(T_5000_dollars), Str(S_currency))>>]))>>) :
        names \in {<<n>> : n \in KeywordNames}
                  \cup {<<p[1], p[2]>> :
                          p \in {q \in KeywordNames \X KeywordNames : q[1] # q[2]}}}

T_minus_1200_dollars == <<"-","$","1",",","2","0","0",".","0","0">>

NegativeAmounts == {T_minus_500, T_minus_1200_dollars}

\* a document with the one field Revenue whose content and value string are a
\* negative amount; and a table of one row with a negative amount in column 1
NegativeInputs ==
    {FullResult(<<>>, <<>>, <<>>,
                <<DocumentOf(Str(T_x), PyFloat(9, 10),
                             Dict(<< <<T_Revenue,
                                       FieldOf(Str(amount), PyFloat(9, 10), value_number,
                                               Str(amount), Str(S_currency))>> >>))>>) :
        amount \in NegativeAmounts, value_number \in {Absent, None}}
    \cup {FullResult(<<>>,
                     <<TableOf(PyInt(1), List(<<CellOf(Absent, 0, 0, Str(label)),
                                                CellOf(Absent, 0, 1, Str(amount))>>))>>,
                     <<>>, <<>>) :
            label \in {T_Revenue, T_Net_Income}, amount \in NegativeAmounts}

RowLabels == {T_Revenue, T_Net_Income, T_COGS, T_Gross_Profit, T_Total_Expenses, T_Notes}

CellTexts ==
    {Absent, Str(T_100000_dollars), Str(T_0_00_dollars), Str(T_1234_50_dollars),
     Str(T_abc), Str(T_nan), Str(T_empty), Str(T_blank), Str(T_minus_500)}

\* the cells of `texts` (column -> content) that are not Absent, in column order
RECURSIVE RowCells(_, _, _)
RowCells(row, texts, column) ==
    IF column > MaxCol THEN <<>>
    ELSE (IF texts[column] = Absent THEN <<>>
          ELSE <<CellOf(Absent, row, column, texts[column])>>)
         \o RowCells(row, texts, column + 1)

\* no document; one table of one row: a label in column 0 and a content or
\* no cell in each of the columns 1..MaxCol
SingleRowInputs ==
    {FullResult(<<>>,
                <<TableOf(PyInt(1), List(<<CellOf(Absent, 0, 0, Str(label))>>
                                         \o RowCells(0, texts, 1)))>>,
                <<>>, <<>>) :
        label \in RowLabels, texts \in [1..MaxCol -> CellTexts]}

ClassifyLabels ==
    RowLabels \cup {T_SALES, T_Cost_of_Sales, T_Net_Sales, T_Gross_Profit_on_Sales,
                    T_Operating_Expenses, T_Net_Profit, T_Operating_Income}

\* no document; one table of one row: a label in column 0 and a content in
\* column 1, or the label in column 1 and the content in column 2 (no column 0)
ClassifyInputs ==
    {FullResult(<<>>,
                <<TableOf(PyInt(1), List(<<CellOf(Absent, 0, first, Str(label)),
                                           CellOf(Absent, 0, first + 1, text)>>))>>,
                <<>>, <<>>) :
        label \in ClassifyLabels, text \in {Str(T_100000_dollars), Str(T_abc)},
        first \in {0, 1}}

RowEntries ==
    [row : 0..(MaxRows - 1),
     label : {T_Revenue, T_Net_Income, T_Notes},
     text : {T_50000_dollars, T_10000_dollars, T_abc}]

\* the sequences of at most k row entries with distinct row indices
RECURSIVE RowSeqs(_)
RowSeqs(k) ==
    IF k = 0 THEN {<<>>}
    ELSE RowSeqs(k - 1)
         \cup {Append(p[1], p[2]) :
                 p \in {q \in RowSeqs(k - 1) \X RowEntries :
                          /\ Len(q[1]) = k - 1
                          /\ \A i \in DOMAIN q[1] : q[1][i].row # q[2].row}}

\* the cells of the rows, listed row by row: label in column 0, text in column 1
RECURSIVE RowsCells(_)
RowsCells(rows) ==
    IF rows = <<>> THEN <<>>
    ELSE <<CellOf(Absent, Head(rows).row, 0, Str(Head(rows).label)),
           CellOf(Absent, Head(rows).row, 1, Str(Head(rows).text))>>
         \o RowsCells(Tail(rows))

\* no document; one table of at most MaxRows rows, listed in any order
MultiRowInputs ==
    {FullResult(<<>>, <<TableOf(PyInt(Len(rows)), List(RowsCells(rows)))>>, <<>>, <<>>) :
        rows \in RowSeqs(MaxRows)}

RawResults ==
    TopLevelInputs \cup NestedInputs \cup FieldInputs \cup SingleRowInputs
    \cup MultiRowInputs \cup ClassifyInputs \cup KeywordInputs \cup NegativeInputs

-----------------------------------------------------------------------------
(* The request: the upstream result is processed by either module *)

\* no request has reached the /financial router: its state is as at start-up
NoFinancialRequests ==
    /\ env = [SKIP_DB |-> "0", SKIP_SERVICE_CHECKS |-> "0"]
    /\ MEM_STATEMENTS = <<>>
    /\ financial_statements = <<>>
    /\ uploads = <<>>
    /\ uuids = 0
    /\ clock = 0
    /\ finRequest = [op |-> "none"]
    /\ finResponse = [kind |-> "none"]
    /\ returned_ids = {}
    /\ stored_before = <<>>
    /\ parse_results = <<>>
    /\ upload_contents = <<>>

\* no request has reached the /memory router
\* nothing has happened at the routers and clients other than /financial
NoMemoryRequests ==
    /\ zep = <<>>
    /\ zep_put = "merge"
    /\ zep_calls = <<>>
    /\ memRequest = [op |-> "none"]
    /\ memResponse = [kind |-> "none"]
    /\ creators = <<>>

NoSignupRequests ==
    /\ auth_users = {}
    /\ users = {}
    /\ signupRequest = [op |-> "none"]
    /\ signupResponse = [kind |-> "none"]

NoDriverRequests ==
    /\ NEO4J_ENV = TRUE
    /\ Neo4jClient_driver = [t |-> "none"]
    /\ drivers = 0
    /\ driver_calls = <<>>

NoServiceRequests == NoMemoryRequests /\ NoSignupRequests /\ NoDriverRequests

\* no request is under way
NoRequest == [kind |-> "none"]

Init ==
    /\ raw \in RawResults
    /\ completeOut = NotRun
    /\ mountedOut = NotRun
    /\ request = NoRequest
    /\ completeResponse = NotRun
    /\ mountedResponse = NotRun
    /\ completeAgain = NotRun
    /\ mountedAgain = NotRun
    /\ NoFinancialRequests
    /\ NoServiceRequests

\* document_analysis_complete.analyze_document, line 88
ProcessComplete ==
    /\ completeOut = NotRun
    /\ completeOut' = complete_process_azure_result(raw)
    /\ UNCHANGED <<raw, mountedOut, requestVars, rerunVars, finVars, serviceVars>>

\* document_analysis.analyze_document, line 105
ProcessMounted ==
    /\ mountedOut = NotRun
    /\ mountedOut' = mounted_process_azure_result(raw)
    /\ UNCHANGED <<raw, completeOut, requestVars, rerunVars, finVars, serviceVars>>

Next == ProcessComplete \/ ProcessMounted

Spec == Init /\ [][Next]_vars

-----------------------------------------------------------------------------
(* POST /api/documentAnalysis: analyze_document of either module *)

\* complete, lines 360-367: _get_mock_response()
complete_get_mock_response == [success |-> TRUE, data |-> get_mock_response_data]

\* base64.b64decode(files[0]) raises binascii.Error (incorrect padding)
b64decode_raises(files) == Head(files) = "bad padding"

\* complete, line 85: len(result.documents) raises when the result has no
\* documents attribute or a null one
complete_len_documents_raises(result) ==
    ~HasAttr(result, "documents") \/ Attr(result, "documents").t \notin {"list", "dict", "str"}

\* a handler that lets the HTTPException(400) of line 55 through
complete_analyze_document_raising_400(req, result) ==
    IF ~req.configured THEN Return(complete_get_mock_response)
    ELSE IF req.files = <<>> THEN RaiseHTTP(400)
    ELSE IF b64decode_raises(req.files) THEN Return(complete_get_mock_response)
    ELSE IF req.upstream = "failure" THEN Return(complete_get_mock_response)
    ELSE IF complete_len_documents_raises(result) THEN Return(complete_get_mock_response)
    ELSE Return([success |-> TRUE, data |-> complete_process_azure_result(result).value])

\* complete, lines 30-104: every exception of the try block, the
\* HTTPException(400) of line 55 included, ends in the mock response
complete_analyze_document(req, result) ==
    IF ~req.configured THEN Return(complete_get_mock_response)
    ELSE IF req.files = <<>> THEN Return(complete_get_mock_response)
    ELSE IF b64decode_raises(req.files) THEN Return(complete_get_mock_response)
    ELSE IF req.upstream = "failure" THEN Return(complete_get_mock_response)
    ELSE IF complete_len_documents_raises(result) THEN Return(complete_get_mock_response)
    ELSE Return([success |-> TRUE, data |-> complete_process_azure_result(result).value])

\* mounted, lines 34-118: every exception of the try block is turned into
\* HTTPException(500) at line 118
mounted_analyze_document(req, result) ==
    IF ~req.configured THEN RaiseHTTP(500)
    ELSE IF req.files = <<>> THEN RaiseHTTP(500)
    ELSE IF b64decode_raises(req.files) THEN RaiseHTTP(500)
    ELSE IF req.upstream = "failure" THEN RaiseHTTP(500)
    ELSE IF mounted_process_azure_result(result).kind = "raise" THEN RaiseHTTP(500)
    ELSE Return([success |-> TRUE, data |-> mounted_process_azure_result(result).value])

\* the file lists of a request: none, one that decodes, one that does not
FileLists == {<<>>, <<"valid">>, <<"bad padding">>}

\* a request: are DI_ENDPOINT and DI_KEY set, the files, and how the call of
\* the document-understanding service ends
Requests == [configured : BOOLEAN, files : FileLists, upstream : {"result", "failure"}]

\* the upstream results of the requests
RequestResults ==
    NestedInputs
    \cup {ResultOf(Str(T_m), Str(T_c), List(<<FullPage>>), List(<<RevenueTable>>),
                   List(<<FullKvp>>), documents) : documents \in {Absent, None}}

\* a request whose upstream call fails has no upstream result
RequestInit ==
    /\ request \in Requests
    /\ IF request.upstream = "result" THEN raw \in RequestResults ELSE raw = None
    /\ completeOut = NotRun
    /\ mountedOut = NotRun
    /\ completeResponse = NotRun
    /\ mountedResponse = NotRun
    /\ completeAgain = NotRun
    /\ mountedAgain = NotRun
    /\ NoFinancialRequests
    /\ NoServiceRequests

AnalyzeComplete ==
    /\ completeResponse = NotRun
    /\ completeResponse' = complete_analyze_document(request, raw)
    /\ UNCHANGED <<raw, completeOut, mountedOut, request, mountedResponse, rerunVars, finVars, serviceVars>>

AnalyzeMounted ==
    /\ mountedResponse = NotRun
    /\ mountedResponse' = mounted_analyze_document(request, raw)
    /\ UNCHANGED <<raw, completeOut, mountedOut, request, completeResponse, rerunVars, finVars, serviceVars>>

RequestNext == AnalyzeComplete \/ AnalyzeMounted

RequestSpec == RequestInit /\ [][RequestNext]_vars

-----------------------------------------------------------------------------
(* A second run of _process_azure_result on the same upstream result *)

RerunInputs == TopLevelInputs \cup NestedInputs \cup MultiRowInputs \cup ClassifyInputs

RerunInit ==
    /\ raw \in RerunInputs
    /\ completeOut = NotRun
    /\ mountedOut = NotRun
    /\ request = NoRequest
    /\ completeResponse = NotRun
    /\ mountedResponse = NotRun
    /\ completeAgain = NotRun
    /\ mountedAgain = NotRun
    /\ NoFinancialRequests
    /\ NoServiceRequests

RerunComplete ==
    /\ completeOut # NotRun
    /\ completeAgain = NotRun
    /\ completeAgain' = complete_process_azure_result(raw)
    /\ UNCHANGED <<raw, completeOut, mountedOut, requestVars, mountedAgain, finVars, serviceVars>>

RerunMounted ==
    /\ mountedOut # NotRun
    /\ mountedAgain = NotRun
    /\ mountedAgain' = mounted_process_azure_result(raw)
    /\ UNCHANGED <<raw, completeOut, mountedOut, requestVars, completeAgain, finVars, serviceVars>>

RerunNext == ProcessComplete \/ ProcessMounted \/ RerunComplete \/ RerunMounted

RerunSpec == RerunInit /\ [][RerunNext]_vars

-----------------------------------------------------------------------------
(* /financial: the statement store of financial.py behind get_current_user *)

\* bound: the requests of one behaviour
MaxRequests == 3

\* values of the SKIP_DB and SKIP_SERVICE_CHECKS environment variables
Environments == [SKIP_DB : {"0", "1", "true"}, SKIP_SERVICE_CHECKS : {"0", "1"}]

\* financial.SKIP_DB
financial_SKIP_DB(e) == e.SKIP_DB \in {"1", "true", "True"}

\* postgres.SKIP_DB
postgres_SKIP_DB(e) == e.SKIP_DB \in {"1", "true", "True"}

\* auth.db_disabled
db_disabled(e) == e.SKIP_DB = "1"

\* bearer tokens a client sends
Tokens == {"alice", "bob", "expired"}

\* supabase.auth.get_user of the real client: the user of a live token
\* (user ids of the identity provider are below 0, uuid4 values above)
supabase_get_user(token) ==
    CASE token = "alice" -> [found |-> TRUE, id |-> 0 - 1]
      [] token = "bob" -> [found |-> TRUE, id |-> 0 - 2]
      [] OTHER -> [found |-> FALSE]

\* rows of the users table: alice has signed up through the database, bob
\* exists at the identity provider only
DBUsers == {0 - 1}

Authenticated(id) == [ok |-> TRUE, id |-> id]
credentials_exception == [ok |-> FALSE, status |-> 401]

\* auth.get_current_user; uuid is the value uuid4() yields when it is called
get_current_user(e, token, uuid) ==
    IF e.SKIP_SERVICE_CHECKS = "1" THEN Authenticated(uuid)
    ELSE LET user == supabase_get_user(token)
         IN  IF ~user.found THEN credentials_exception
             ELSE IF db_disabled(e) THEN Authenticated(user.id)
             ELSE IF user.id \notin DBUsers THEN credentials_exception
             ELSE Authenticated(user.id)

\* uuid4 values get_current_user draws
uuids_of_auth(e) == IF e.SKIP_SERVICE_CHECKS = "1" THEN 1 ELSE 0

S_unknown == <<"u","n","k","n","o","w","n">>
S_income_statement ==
    <<"i","n","c","o","m","e","_","s","t","a","t","e","m","e","n","t">>
S_text_csv == <<"t","e","x","t","/","c","s","v">>

\* file.filename.split('.')[-1]
RECURSIVE AfterLastDot(_)
AfterLastDot(s) ==
    IF \E i \in DOMAIN s : s[i] = "."
    THEN AfterLastDot(SubSeq(s, (CHOOSE i \in DOMAIN s : s[i] = ".") + 1, Len(s)))
    ELSE s

\* f"uploads/{current_user.id}/{file.filename}"
upload_path(user_id, filename) == [user |-> user_id, name |-> filename]

\* the placeholder parse_financial_statement stores
ParsedData(now) == [t |-> "dict", status |-> "parsed", timestamp |-> now]

\* the record upload_financial_data keeps in _MEM_STATEMENTS and returns
mem_record(id, user_id, file, statement_type, now) ==
    [id |-> id,
     user_id |-> user_id,
     file_name |-> file.filename,
     file_path |-> upload_path(user_id, file.filename),
     statement_type |-> IF Truthy(statement_type) THEN statement_type ELSE Str(S_unknown),
     upload_date |-> now,
     file_type |-> Lower(AfterLastDot(file.filename)),
     file_size |-> Len(file.contents),
     parsed_data |-> None,
     metadata |-> [content_type |-> file.content_type,
                   original_filename |-> file.filename]]

\* the FinancialStatement row upload_financial_data inserts
db_row(id, user_id, file, statement_type, now) ==
    [id |-> id,
     user_id |-> user_id,
     file_name |-> file.filename,
     file_path |-> upload_path(user_id, file.filename),
     statement_type |-> IF Truthy(statement_type) THEN statement_type ELSE Str(S_unknown),
     upload_date |-> now,
     file_size |-> Len(file.contents),
     file_type |-> Lower(AfterLastDot(file.filename)),
     parsed_data |-> None,
     extra_metadata |-> [content_type |-> file.content_type,
                         original_filename |-> file.filename]]

\* getattr(stmt, "metadata", None) on a declarative model: the MetaData of Base
DeclarativeMetaData == [t |-> "MetaData"]

\* a function without the key k
Without(f, k) == [x \in DOMAIN f \ {k} |-> f[x]]

\* what a handler leaves behind: its response, the two stores, the files
Outcome(response, mem, table, files) ==
    [response |-> response, mem |-> mem, table |-> table, files |-> files]

\* financial.upload_financial_data; uuid is the id the new statement gets
upload_financial_data(e, mem, table, files, user_id, file, statement_type, uuid, now, db_fails) ==
    LET file_path == upload_path(user_id, file.filename)
        written == [p \in DOMAIN files \cup {file_path} |->
                       IF p = file_path THEN file.contents ELSE files[p]]
    IN  IF financial_SKIP_DB(e)
        THEN LET record == mem_record(uuid, user_id, file, statement_type, now)
             IN  Outcome(Return(record),
                         [i \in DOMAIN mem \cup {uuid} |->
                             IF i = uuid THEN record ELSE mem[i]],
                         table, written)
        ELSE IF db_fails \/ user_id \notin DBUsers
             THEN Outcome(RaiseHTTP(500), mem, table, Without(written, file_path))
             ELSE LET statement == db_row(uuid, user_id, file, statement_type, now)
                  IN  Outcome(Return([id |-> statement.id,
                                      file_name |-> statement.file_name,
                                      statement_type |-> statement.statement_type,
                                      upload_date |-> statement.upload_date,
                                      file_type |-> statement.file_type,
                                      file_size |-> statement.file_size]),
                              mem,
                              [i \in DOMAIN table \cup {uuid} |->
                                  IF i = uuid THEN statement ELSE table[i]],
                              written)

\* financial.get_financial_statement
get_financial_statement(e, mem, table, files, user_id, statement_id, db_fails) ==
    IF financial_SKIP_DB(e)
    THEN IF statement_id \notin DOMAIN mem
         THEN Outcome(RaiseHTTP(404), mem, table, files)
         ELSE IF mem[statement_id].user_id # user_id
         THEN Outcome(RaiseHTTP(404), mem, table, files)
         ELSE Outcome(Return(mem[statement_id]), mem, table, files)
    ELSE IF db_fails THEN Outcome(RaiseHTTP(500), mem, table, files)
    ELSE IF statement_id \notin DOMAIN table
         THEN Outcome(RaiseHTTP(404), mem, table, files)
         ELSE IF table[statement_id].user_id # user_id
         THEN Outcome(RaiseHTTP(404), mem, table, files)
         ELSE LET stmt == table[statement_id]
              IN  Outcome(Return([id |-> stmt.id,
                                  file_name |-> stmt.file_name,
                                  statement_type |-> stmt.statement_type,
                                  upload_date |-> stmt.upload_date,
                                  file_type |-> stmt.file_type,
                                  file_size |-> stmt.file_size,
                                  parsed_data |-> stmt.parsed_data,
                                  metadata |-> DeclarativeMetaData]),
                          mem, table, files)

\* a listing that does not look at the owner
get_financial_statements_unfiltered(e, mem, table, files, user_id, db_fails) ==
    IF financial_SKIP_DB(e)
    THEN Outcome(Return({mem[i] : i \in DOMAIN mem}), mem, table, files)
    ELSE Outcome(RaiseHTTP(500), mem, table, files)

\* financial.get_financial_statements
get_financial_statements(e, mem, table, files, user_id, db_fails) ==
    IF financial_SKIP_DB(e)
    THEN Outcome(Return({mem[i] : i \in {j \in DOMAIN mem : mem[j].user_id = user_id}}),
                 mem, table, files)
    ELSE IF db_fails THEN Outcome(RaiseHTTP(500), mem, table, files)
    ELSE Outcome(Return({[id |-> table[i].id,
                          file_name |-> table[i].file_name,
                          statement_type |-> table[i].statement_type,
                          upload_date |-> table[i].upload_date,
                          file_type |-> table[i].file_type,
                          file_size |-> table[i].file_size,
                          metadata |-> DeclarativeMetaData]
                           : i \in {j \in DOMAIN table : table[j].user_id = user_id}}),
                 mem, table, files)

\* a parse that answers with the placeholder and does not keep it
parse_financial_statement_unsaved(e, mem, table, files, user_id, statement_id, now, db_fails) ==
    IF statement_id \in DOMAIN (IF financial_SKIP_DB(e) THEN mem ELSE table)
       /\ (IF financial_SKIP_DB(e) THEN mem ELSE table)[statement_id].user_id = user_id
       /\ ~db_fails
    THEN Outcome(Return([id |-> statement_id,
                         file_name |-> (IF financial_SKIP_DB(e) THEN mem ELSE table)[statement_id].file_name,
                         parsed_data |-> ParsedData(now)]),
                 mem, table, files)
    ELSE Outcome(RaiseHTTP(IF db_fails THEN 500 ELSE 404), mem, table, files)

\* financial.parse_financial_statement
parse_financial_statement(e, mem, table, files, user_id, statement_id, now, db_fails) ==
    IF financial_SKIP_DB(e)
    THEN IF statement_id \notin DOMAIN mem
         THEN Outcome(RaiseHTTP(404), mem, table, files)
         ELSE IF mem[statement_id].user_id # user_id
         THEN Outcome(RaiseHTTP(404), mem, table, files)
         ELSE Outcome(Return([id |-> statement_id,
                              file_name |-> mem[statement_id].file_name,
                              parsed_data |-> ParsedData(now)]),
                      [mem EXCEPT ![statement_id].parsed_data = ParsedData(now)],
                      table, files)
    ELSE IF db_fails THEN Outcome(RaiseHTTP(500), mem, table, files)
    ELSE IF statement_id \notin DOMAIN table
         THEN Outcome(RaiseHTTP(404), mem, table, files)
         ELSE IF table[statement_id].user_id # user_id
         THEN Outcome(RaiseHTTP(404), mem, table, files)
         ELSE Outcome(Return([id |-> table[statement_id].id,
                              file_name |-> table[statement_id].file_name,
                              parsed_data |-> ParsedData(now)]),
                      mem,
                      [table EXCEPT ![statement_id].parsed_data = ParsedData(now)],
                      files)

\* uploaded files: one name with two contents, and a name with an upper-case
\* extension
S_a_csv == <<"a",".","c","s","v">>
S_b_PDF == <<"b",".","P","D","F">>
UploadFile(filename, contents) ==
    [filename |-> filename, contents |-> contents, content_type |-> S_text_csv]
Files ==
    {UploadFile(S_a_csv, <<"x">>), UploadFile(S_a_csv, <<"y","z">>),
     UploadFile(S_b_PDF, <<"x">>)}
StatementTypes == {None, Str(S_income_statement)}

\* whether the database raises while the handler uses it: only a handler that
\* uses the database can meet that
DbFailures(e) == IF financial_SKIP_DB(e) THEN {FALSE} ELSE BOOLEAN

\* the statements, wherever the configuration keeps them
Stored == IF financial_SKIP_DB(env) THEN MEM_STATEMENTS ELSE financial_statements

FinInit ==
    /\ env \in Environments
    /\ MEM_STATEMENTS = <<>>
    /\ financial_statements = <<>>
    /\ uploads = <<>>
    /\ uuids = 0
    /\ clock = 0
    /\ finRequest = [op |-> "none"]
    /\ finResponse = NotRun
    /\ returned_ids = {}
    /\ stored_before = <<>>
    /\ parse_results = <<>>
    /\ upload_contents = <<>>
    /\ raw = None
    /\ completeOut = NotRun
    /\ mountedOut = NotRun
    /\ request = NoRequest
    /\ completeResponse = NotRun
    /\ mountedResponse = NotRun
    /\ completeAgain = NotRun
    /\ mountedAgain = NotRun
    /\ NoServiceRequests

\* a /financial request leaves the document-analysis variables alone
FinUnchanged ==
    UNCHANGED <<raw, completeOut, mountedOut, requestVars, rerunVars, serviceVars>>

\* a request get_current_user turned away: 401, and nothing else happens
Rejected(req) ==
    /\ finRequest' = req
    /\ finResponse' = RaiseHTTP(401)
    /\ stored_before' = Stored
    /\ clock' = clock + 1
    /\ UNCHANGED <<env, MEM_STATEMENTS, financial_statements, uploads, uuids,
                   returned_ids, parse_results, upload_contents>>

\* the handler's outcome becomes the state
Handled(req, out, drawn) ==
    /\ finRequest' = req
    /\ finResponse' = out.response
    /\ MEM_STATEMENTS' = out.mem
    /\ financial_statements' = out.table
    /\ uploads' = out.files
    /\ uuids' = uuids + drawn
    /\ stored_before' = Stored
    /\ upload_contents' =
           IF req.op = "upload" /\ out.response.kind = "return"
           THEN [i \in DOMAIN upload_contents \cup {out.response.value.id} |->
                    IF i = out.response.value.id THEN req.file.contents
                    ELSE upload_contents[i]]
           ELSE upload_contents
    /\ clock' = clock + 1
    /\ UNCHANGED env

\* POST /financial/upload
Upload ==
    /\ clock < MaxRequests
    /\ FinUnchanged
    /\ \E token \in Tokens, file \in Files, statement_type \in StatementTypes,
          db_fails \in DbFailures(env) :
          LET user == get_current_user(env, token, uuids + 1)
              uuid == uuids + uuids_of_auth(env) + 1
              req == [op |-> "upload", token |-> token, user |-> user,
                      file |-> file, statement_type |-> statement_type,
                      db_fails |-> db_fails]
          IN  IF ~user.ok
              THEN ~db_fails /\ Rejected(req)
              ELSE LET out == upload_financial_data(env, MEM_STATEMENTS,
                                  financial_statements, uploads, user.id, file,
                                  statement_type, uuid, clock, db_fails)
                       answered == out.response.kind = "return"
                   IN  /\ Handled(req, out, uuids_of_auth(env)
                                            + (IF answered THEN 1 ELSE 0))
                       /\ returned_ids' =
                              IF answered
                              THEN returned_ids \cup {<<token, out.response.value.id>>}
                              ELSE returned_ids
                       /\ UNCHANGED parse_results

\* GET /financial/statements/{statement_id}
GetStatement ==
    /\ clock < MaxRequests
    /\ FinUnchanged
    /\ \E token \in Tokens, statement_id \in 0..uuids, db_fails \in DbFailures(env) :
          LET user == get_current_user(env, token, uuids + 1)
              req == [op |-> "get", token |-> token, user |-> user,
                      statement_id |-> statement_id, db_fails |-> db_fails]
          IN  IF ~user.ok
              THEN ~db_fails /\ Rejected(req)
              ELSE /\ Handled(req,
                              get_financial_statement(env, MEM_STATEMENTS,
                                  financial_statements, uploads, user.id,
                                  statement_id, db_fails),
                              uuids_of_auth(env))
                   /\ UNCHANGED <<returned_ids, parse_results>>

\* GET /financial/statements
ListStatements ==
    /\ clock < MaxRequests
    /\ FinUnchanged
    /\ \E token \in Tokens, db_fails \in DbFailures(env) :
          LET user == get_current_user(env, token, uuids + 1)
              req == [op |-> "list", token |-> token, user |-> user,
                      db_fails |-> db_fails]
          IN  IF ~user.ok
              THEN ~db_fails /\ Rejected(req)
              ELSE /\ Handled(req,
                              get_financial_statements(env, MEM_STATEMENTS,
                                  financial_statements, uploads, user.id, db_fails),
                              uuids_of_auth(env))
                   /\ UNCHANGED <<returned_ids, parse_results>>

\* PUT /financial/statements/{statement_id}/parse
ParseStatement ==
    /\ clock < MaxRequests
    /\ FinUnchanged
    /\ \E token \in Tokens, statement_id \in 0..uuids, db_fails \in DbFailures(env) :
          LET user == get_current_user(env, token, uuids + 1)
              req == [op |-> "parse", token |-> token, user |-> user,
                      statement_id |-> statement_id, db_fails |-> db_fails]
          IN  IF ~user.ok
              THEN ~db_fails /\ Rejected(req)
              ELSE LET out == parse_financial_statement(env, MEM_STATEMENTS,
                                  financial_statements, uploads, user.id,
                                  statement_id, clock, db_fails)
                   IN  /\ Handled(req, out, uuids_of_auth(env))
                       /\ parse_results' =
                              IF out.response.kind = "return"
                              THEN [i \in DOMAIN parse_results \cup {statement_id} |->
                                       IF i = statement_id
                                       THEN out.response.value.parsed_data
                                       ELSE parse_results[i]]
                              ELSE parse_results
                       /\ UNCHANGED returned_ids

FinNext == Upload \/ GetStatement \/ ListStatements \/ ParseStatement

FinSpec == FinInit /\ [][FinNext]_vars

-----------------------------------------------------------------------------
(* /memory: memory.py in front of the memory service *)

\* a dict a client may leave out: metadata of MemoryCreate and MemoryUpdate
NotGiven == [given |-> FALSE]
Given(dict) == [given |-> TRUE, dict |-> dict]

\* {**metadata, "user_id": user_id}
WithUserId(metadata, user_id) ==
    [k \in DOMAIN metadata \cup {"user_id"} |->
        IF k = "user_id" THEN user_id ELSE metadata[k]]

\* memory.metadata or {}
OrEmpty(metadata) == IF metadata.given THEN metadata.dict ELSE [k \in {} |-> 0]

\* a call of the httpx client
Call(method, memory_id, json) == [method |-> method, id |-> memory_id, json |-> json]

\* what a handler leaves behind: its response, the memories of the service,
\* the calls it made
MemoryOutcome(response, memories, calls) ==
    [response |-> response, memories |-> memories, calls |-> calls]

\* PUT /api/v1/memory/{id} at the service: the body replaces the memory, or
\* its keys replace those of the memory
zep_put_memory(memories, put, memory_id, json) ==
    [i \in DOMAIN memories |->
        IF i # memory_id THEN memories[i]
        ELSE IF put = "replace" THEN json
        ELSE [k \in DOMAIN memories[i] \cup DOMAIN json |->
                 IF k \in DOMAIN json THEN json[k] ELSE memories[i][k]]]

\* memory.create_memory; new_id is the id the service gives the memory
create_memory(memories, user_id, content, metadata, new_id, zep_fails) ==
    LET json == [content |-> content,
                 metadata |-> WithUserId(OrEmpty(metadata), user_id)]
        calls == <<Call("POST", 0, json)>>
    IN  IF zep_fails THEN MemoryOutcome(RaiseHTTP(500), memories, calls)
        ELSE MemoryOutcome(Return(json),
                 [i \in DOMAIN memories \cup {new_id} |->
                     IF i = new_id THEN json ELSE memories[i]],
                 calls)

\* memory.list_memories: the service filters by metadata.user_id
list_memories(memories, user_id, zep_fails) ==
    LET calls == <<Call("GET", 0, [user_id |-> user_id])>>
    IN  IF zep_fails THEN MemoryOutcome(RaiseHTTP(500), memories, calls)
        ELSE MemoryOutcome(
                 Return({memories[i] :
                           i \in {j \in DOMAIN memories :
                                    /\ "metadata" \in DOMAIN memories[j]
                                    /\ "user_id" \in DOMAIN memories[j].metadata
                                    /\ memories[j].metadata.user_id = user_id}}),
                 memories, calls)

\* existing["metadata"].get("user_id") != current_user.id, where
\* existing["metadata"] raises KeyError for a memory without metadata
owner_check(existing, user_id) ==
    IF "metadata" \notin DOMAIN existing THEN "KeyError"
    ELSE IF "user_id" \notin DOMAIN existing.metadata THEN "forbidden"
    ELSE IF existing.metadata.user_id # user_id THEN "forbidden"
    ELSE "owner"

\* memory.get_memory
get_memory(memories, user_id, memory_id, zep_fails) ==
    LET calls == <<Call("GET", memory_id, None)>>
    IN  IF zep_fails \/ memory_id \notin DOMAIN memories
        THEN MemoryOutcome(RaiseHTTP(500), memories, calls)
        ELSE CASE owner_check(memories[memory_id], user_id) = "KeyError" ->
                      MemoryOutcome(RaiseHTTP(500), memories, calls)
               [] owner_check(memories[memory_id], user_id) = "forbidden" ->
                      MemoryOutcome(RaiseHTTP(403), memories, calls)
               [] OTHER -> MemoryOutcome(Return(memories[memory_id]), memories, calls)

\* memory.update_memory, lines 119-127: the body of the PUT
update_data(user_id, content, metadata) ==
    LET keys == (IF content # None THEN {"content"} ELSE {})
                \cup (IF metadata.given THEN {"metadata"} ELSE {})
    IN  [k \in keys |->
            IF k = "content" THEN content ELSE WithUserId(metadata.dict, user_id)]

\* memory.update_memory
update_memory(memories, put, user_id, memory_id, content, metadata, zep_fails) ==
    LET get == <<Call("GET", memory_id, None)>>
        json == update_data(user_id, content, metadata)
        updated == zep_put_memory(memories, put, memory_id, json)
    IN  IF zep_fails \/ memory_id \notin DOMAIN memories
        THEN MemoryOutcome(RaiseHTTP(500), memories, get)
        ELSE CASE owner_check(memories[memory_id], user_id) = "KeyError" ->
                      MemoryOutcome(RaiseHTTP(500), memories, get)
               [] owner_check(memories[memory_id], user_id) = "forbidden" ->
                      MemoryOutcome(RaiseHTTP(403), memories, get)
               [] OTHER ->
                      MemoryOutcome(Return(updated[memory_id]), updated,
                                    Append(get, Call("PUT", memory_id, json)))

\* memory.delete_memory
delete_memory(memories, user_id, memory_id, zep_fails) ==
    LET get == <<Call("GET", memory_id, None)>>
    IN  IF zep_fails \/ memory_id \notin DOMAIN memories
        THEN MemoryOutcome(RaiseHTTP(500), memories, get)
        ELSE CASE owner_check(memories[memory_id], user_id) = "KeyError" ->
                      MemoryOutcome(RaiseHTTP(500), memories, get)
               [] owner_check(memories[memory_id], user_id) = "forbidden" ->
                      MemoryOutcome(RaiseHTTP(403), memories, get)
               [] OTHER ->
                      MemoryOutcome(Return([message |-> "Memory deleted successfully"]),
                                    Without(memories, memory_id),
                                    Append(get, Call("DELETE", memory_id, None)))

\* metadata a client sends: none, a tag, another user's id
ClientMetadata == {NotGiven, Given([tag |-> 0]), Given([user_id |-> 0 - 2])}

\* content a client sends with an update
UpdateContents == {None, Str(<<"d">>)}

\* ids a request may name: those the service has given out, and 0
MemoryIds == 0..Cardinality(DOMAIN creators)

MemInit ==
    /\ env \in Environments
    /\ zep_put \in {"replace", "merge"}
    /\ zep = <<>>
    /\ zep_calls = <<>>
    /\ memRequest = [op |-> "none"]
    /\ memResponse = NotRun
    /\ creators = <<>>
    /\ NoSignupRequests
    /\ NoDriverRequests
    /\ MEM_STATEMENTS = <<>>
    /\ financial_statements = <<>>
    /\ uploads = <<>>
    /\ uuids = 0
    /\ clock = 0
    /\ finRequest = [op |-> "none"]
    /\ finResponse = NotRun
    /\ returned_ids = {}
    /\ stored_before = <<>>
    /\ parse_results = <<>>
    /\ upload_contents = <<>>
    /\ raw = None
    /\ completeOut = NotRun
    /\ mountedOut = NotRun
    /\ request = NoRequest
    /\ completeResponse = NotRun
    /\ mountedResponse = NotRun
    /\ completeAgain = NotRun
    /\ mountedAgain = NotRun

\* a /memory request leaves the other routers' variables alone
MemUnchanged ==
    UNCHANGED <<raw, completeOut, mountedOut, requestVars, rerunVars, env,
                MEM_STATEMENTS, financial_statements, uploads, finRequest,
                finResponse, returned_ids, stored_before, parse_results,
                upload_contents, zep_put,
                authVars, neo4jVars>>

\* a /memory request that get_current_user turned away, or that a handler
\* answered
MemoryHandled(op, token, memory_id, user, zep_fails, out) ==
    /\ memRequest' = [op |-> op, token |-> token, memory_id |-> memory_id,
                      user |-> user, zep_fails |-> zep_fails]
    /\ memResponse' = IF user.ok THEN out.response ELSE RaiseHTTP(401)
    /\ zep' = IF user.ok THEN out.memories ELSE zep
    /\ zep_calls' = IF user.ok THEN out.calls ELSE <<>>
    /\ uuids' = uuids + (IF user.ok THEN uuids_of_auth(env) ELSE 0)
    /\ clock' = clock + 1

\* POST /memory/
CreateMemory ==
    /\ clock < MaxRequests
    /\ MemUnchanged
    /\ \E token \in Tokens, metadata \in ClientMetadata, zep_fails \in BOOLEAN :
          LET user == get_current_user(env, token, uuids + 1)
              new_id == Cardinality(DOMAIN creators) + 1
              out == create_memory(zep, user.id, Str(<<"c">>), metadata, new_id, zep_fails)
          IN  /\ user.ok \/ (metadata = NotGiven /\ ~zep_fails)
              /\ MemoryHandled("create", token, 0, user, zep_fails, out)
              /\ creators' =
                     IF user.ok /\ out.response.kind = "return"
                     THEN [i \in DOMAIN creators \cup {new_id} |->
                              IF i = new_id THEN user.id ELSE creators[i]]
                     ELSE creators

\* GET /memory/
ListMemories ==
    /\ clock < MaxRequests
    /\ MemUnchanged
    /\ \E token \in Tokens, zep_fails \in BOOLEAN :
          LET user == get_current_user(env, token, uuids + 1)
          IN  /\ user.ok \/ ~zep_fails
              /\ MemoryHandled("list", token, 0, user, zep_fails, list_memories(zep, user.id, zep_fails))
              /\ UNCHANGED creators

\* GET /memory/{memory_id}
GetMemory ==
    /\ clock < MaxRequests
    /\ MemUnchanged
    /\ \E token \in Tokens, memory_id \in MemoryIds, zep_fails \in BOOLEAN :
          LET user == get_current_user(env, token, uuids + 1)
          IN  /\ user.ok \/ ~zep_fails
              /\ MemoryHandled("get", token, memory_id, user, zep_fails,
                               get_memory(zep, user.id, memory_id, zep_fails))
              /\ UNCHANGED creators

\* PUT /memory/{memory_id}
UpdateMemory ==
    /\ clock < MaxRequests
    /\ MemUnchanged
    /\ \E token \in Tokens, memory_id \in MemoryIds, content \in UpdateContents,
          metadata \in ClientMetadata, zep_fails \in BOOLEAN :
          LET user == get_current_user(env, token, uuids + 1)
          IN  /\ user.ok \/ (content = None /\ metadata = NotGiven /\ ~zep_fails)
              /\ MemoryHandled("update", token, memory_id, user, zep_fails,
                               update_memory(zep, zep_put, user.id, memory_id,
                                             content, metadata, zep_fails))
              /\ UNCHANGED creators

\* DELETE /memory/{memory_id}
DeleteMemory ==
    /\ clock < MaxRequests
    /\ MemUnchanged
    /\ \E token \in Tokens, memory_id \in MemoryIds, zep_fails \in BOOLEAN :
          LET user == get_current_user(env, token, uuids + 1)
          IN  /\ user.ok \/ ~zep_fails
              /\ MemoryHandled("delete", token, memory_id, user, zep_fails,
                               delete_memory(zep, user.id, memory_id, zep_fails))
              /\ UNCHANGED creators

MemNext == CreateMemory \/ ListMemories \/ GetMemory \/ UpdateMemory \/ DeleteMemory

MemSpec == MemInit /\ [][MemNext]_vars

-----------------------------------------------------------------------------
(* /auth/signup: auth.signup between the identity provider and the users table *)

Emails == {"a@x", "b@x"}

\* a user of the identity provider, a row of the users table
AuthUser(id, email) == [id |-> id, email |-> email]

\* what supabase.auth.sign_up may do: return a user with a session, a user
\* without one (the email has to be confirmed first), no user, or raise
SignUpResults == {"session", "no_session", "no_user", "raises"}

\* what the insert block may do: add, commit and refresh the row; raise before
\* the commit; raise in db.refresh after the commit
InsertResults == {"ok", "fails", "refresh_fails"}

\* the tokens of a session
SessionTokens(id) == [token_type |-> "bearer", user |-> id]

SignupOutcome(response, auth, table) ==
    [response |-> response, auth_users |-> auth, users |-> table]

\* supabase.auth.sign_up: the stub of SKIP_SERVICE_CHECKS=1 keeps no users and
\* always returns a session; the provider raises for a registered email
sign_up(e, auth, email, new_id, result) ==
    IF e.SKIP_SERVICE_CHECKS = "1" THEN [result |-> "session", auth_users |-> auth]
    ELSE IF \E u \in auth : u.email = email THEN [result |-> "raises", auth_users |-> auth]
    ELSE IF result \in {"no_user", "raises"} THEN [result |-> result, auth_users |-> auth]
    ELSE [result |-> result, auth_users |-> auth \cup {AuthUser(new_id, email)}]

\* supabase_db.auth.admin.delete_user in the cleanup of a failed insert
delete_user(auth, id, cleanup_ok) ==
    IF cleanup_ok THEN {u \in auth : u.id # id} ELSE auth

\* auth.signup without the cleanup of lines 208-213: the auth user stays when
\* the insert fails
signup_without_cleanup(e, auth, table, email, new_id, query_fails, result, insert, cleanup_ok, sign_in_ok) ==
    LET created == sign_up(e, auth, email, new_id, result)
        row == AuthUser(new_id, email)
        stub == e.SKIP_SERVICE_CHECKS = "1"
    IN  IF query_fails THEN SignupOutcome(RaiseHTTP(500), auth, table)
        ELSE IF \E u \in table : u.email = email
        THEN SignupOutcome(RaiseHTTP(400), auth, table)
        ELSE IF created.result \in {"no_user", "raises"}
        THEN SignupOutcome(RaiseHTTP(400), auth, table)
        ELSE IF db_disabled(e)
        THEN IF created.result = "no_session" /\ ~(stub \/ sign_in_ok)
             THEN SignupOutcome(RaiseHTTP(500), created.auth_users, table)
             ELSE SignupOutcome(Return(SessionTokens(new_id)), created.auth_users, table)
        ELSE IF insert = "fails"
        THEN SignupOutcome(RaiseHTTP(500), created.auth_users, table)
        ELSE IF insert = "refresh_fails"
        THEN SignupOutcome(RaiseHTTP(500), created.auth_users, table \cup {row})
        ELSE IF created.result = "no_session"
        THEN SignupOutcome(RaiseHTTP(500), created.auth_users, table \cup {row})
        ELSE SignupOutcome(Return(SessionTokens(new_id)), created.auth_users,
                           table \cup {row})

\* auth.signup
signup(e, auth, table, email, new_id, query_fails, result, insert, cleanup_ok, sign_in_ok) ==
    LET created == sign_up(e, auth, email, new_id, result)
        row == AuthUser(new_id, email)
        stub == e.SKIP_SERVICE_CHECKS = "1"
    IN  IF query_fails THEN SignupOutcome(RaiseHTTP(500), auth, table)
        ELSE IF \E u \in table : u.email = email
        THEN SignupOutcome(RaiseHTTP(400), auth, table)
        ELSE IF created.result \in {"no_user", "raises"}
        THEN SignupOutcome(RaiseHTTP(400), auth, table)
        ELSE IF db_disabled(e)
        THEN IF created.result = "no_session" /\ ~(stub \/ sign_in_ok)
             THEN SignupOutcome(RaiseHTTP(500), created.auth_users, table)
             ELSE SignupOutcome(Return(SessionTokens(new_id)), created.auth_users, table)
        ELSE IF insert = "fails"
        THEN SignupOutcome(RaiseHTTP(500),
                           delete_user(created.auth_users, new_id, cleanup_ok), table)
        ELSE IF insert = "refresh_fails"
        THEN SignupOutcome(RaiseHTTP(500),
                           delete_user(created.auth_users, new_id, cleanup_ok),
                           table \cup {row})
        ELSE IF created.result = "no_session"
        THEN SignupOutcome(RaiseHTTP(500), created.auth_users, table \cup {row})
        ELSE SignupOutcome(Return(SessionTokens(new_id)), created.auth_users,
                           table \cup {row})

SignupInit ==
    /\ env \in Environments
    /\ NoSignupRequests
    /\ NoMemoryRequests
    /\ NoDriverRequests
    /\ MEM_STATEMENTS = <<>>
    /\ financial_statements = <<>>
    /\ uploads = <<>>
    /\ uuids = 0
    /\ clock = 0
    /\ finRequest = [op |-> "none"]
    /\ finResponse = NotRun
    /\ returned_ids = {}
    /\ stored_before = <<>>
    /\ parse_results = <<>>
    /\ upload_contents = <<>>
    /\ raw = None
    /\ completeOut = NotRun
    /\ mountedOut = NotRun
    /\ request = NoRequest
    /\ completeResponse = NotRun
    /\ mountedResponse = NotRun
    /\ completeAgain = NotRun
    /\ mountedAgain = NotRun

\* POST /auth/signup
Signup ==
    /\ clock < MaxRequests
    /\ \E email \in Emails, query_fails \in BOOLEAN, result \in SignUpResults,
          insert \in InsertResults, cleanup_ok \in BOOLEAN, sign_in_ok \in BOOLEAN :
          LET new_id == clock + 1
              out == signup(env, auth_users, users, email, new_id, query_fails,
                            result, insert, cleanup_ok, sign_in_ok)
          IN  /\ signupRequest' = [op |-> "signup", email |-> email, id |-> new_id,
                                   insert |-> insert, cleanup_ok |-> cleanup_ok,
                                   auth_before |-> auth_users, users_before |-> users]
              /\ signupResponse' = out.response
              /\ auth_users' = out.auth_users
              /\ users' = out.users
    /\ clock' = clock + 1
    /\ UNCHANGED <<raw, completeOut, mountedOut, requestVars, rerunVars, env,
                   MEM_STATEMENTS, financial_statements, uploads, uuids, finRequest,
                   finResponse, returned_ids, stored_before, parse_results,
                upload_contents,
                   memVars, neo4jVars>>

SignupNext == Signup

SignupSpec == SignupInit /\ [][SignupNext]_vars

-----------------------------------------------------------------------------
(* db/neo4j_client.py: the driver kept by Neo4jClient *)

\* the n-th driver GraphDatabase.driver constructed; tested records whether
\* RETURN 1 has succeeded on it
Driver(n, tested) == [t |-> "driver", n |-> n, tested |-> tested]

Raise(error) == [kind |-> "raise", error |-> error]

DriverOutcome(result, driver, constructed) ==
    [result |-> result, driver |-> driver, drivers |-> constructed]

\* Neo4jClient.get_driver
get_driver(driver, constructed, configured, construct_ok, test_ok) ==
    IF driver # None THEN DriverOutcome(Return(driver), driver, constructed)
    ELSE IF ~configured THEN DriverOutcome(Raise("ValueError"), driver, constructed)
    ELSE IF ~construct_ok THEN DriverOutcome(Raise("Exception"), driver, constructed)
    ELSE IF ~test_ok
    THEN DriverOutcome(Raise("Exception"), Driver(constructed + 1, FALSE), constructed + 1)
    ELSE DriverOutcome(Return(Driver(constructed + 1, TRUE)),
                       Driver(constructed + 1, TRUE), constructed + 1)

\* Neo4jClient.close_driver
close_driver(driver, constructed) == DriverOutcome(Return(None), None, constructed)

Neo4jInit ==
    /\ NEO4J_ENV \in BOOLEAN
    /\ Neo4jClient_driver = None
    /\ drivers = 0
    /\ driver_calls = <<>>
    /\ NoSignupRequests
    /\ NoMemoryRequests
    /\ NoFinancialRequests
    /\ raw = None
    /\ completeOut = NotRun
    /\ mountedOut = NotRun
    /\ request = NoRequest
    /\ completeResponse = NotRun
    /\ mountedResponse = NotRun
    /\ completeAgain = NotRun
    /\ mountedAgain = NotRun

\* how many calls of the client a behaviour makes
MaxCalls == 4

\* a call of the client, its outcome appended to the calls made
DriverCalled(op, out) ==
    /\ Neo4jClient_driver' = out.driver
    /\ drivers' = out.drivers
    /\ driver_calls' = Append(driver_calls, [op |-> op, result |-> out.result,
                                              before |-> Neo4jClient_driver])
    /\ UNCHANGED <<raw, completeOut, mountedOut, requestVars, rerunVars, finVars,
                   memVars, authVars, NEO4J_ENV>>

GetDriver ==
    /\ Len(driver_calls) < MaxCalls
    /\ \E construct_ok \in BOOLEAN, test_ok \in BOOLEAN :
          DriverCalled("get_driver",
                       get_driver(Neo4jClient_driver, drivers, NEO4J_ENV, construct_ok, test_ok))

CloseDriver ==
    /\ Len(driver_calls) < MaxCalls
    /\ DriverCalled("close_driver", close_driver(Neo4jClient_driver, drivers))

Neo4jNext == GetDriver \/ CloseDriver

Neo4jSpec == Neo4jInit /\ [][Neo4jNext]_vars

-----------------------------------------------------------------------------
(* Properties *)

\* some attribute, at any depth, is present and null
RECURSIVE HasNull(_)
HasNull(v) ==
    CASE v.t = "none" -> TRUE
      [] v.t = "obj" -> \E a \in DOMAIN v.a : HasNull(v.a[a])
      [] v.t = "list" -> \E i \in DOMAIN v.l : HasNull(v.l[i])
      [] v.t = "dict" -> \E i \in DOMAIN v.items : HasNull(v.items[i][2])
      [] OTHER -> FALSE

Outcomes == {completeOut, mountedOut} \ {NotRun}

AnalyzeResult(out) == out.value.analyzeResult

Documents(out) == AnalyzeResult(out).documents.l

TopLevelSequences == {"pages", "tables", "keyValuePairs", "documents"}

\* C1: for every raw analysis result, whichever optional attributes it omits
\* (attributes are left out, none is null), _process_azure_result of either
\* module gives an output whose analyzeResult has the four keys pages, tables,
\* keyValuePairs and documents, each a list.
C1_FourSequencesPresent ==
    ~HasNull(raw) =>
        \A out \in Outcomes :
            /\ out.kind = "return"
            /\ TopLevelSequences \subseteq DOMAIN AnalyzeResult(out)
            /\ \A k \in TopLevelSequences : AnalyzeResult(out)[k].t = "list"

\* the output is built from the attributes the input has: model id and content
\* are the input's (content "" when absent), and there is one output page and
\* table per input page and table (none when absent)
BuiltFromPresent(out) ==
    /\ out.kind = "return"
    /\ HasAttr(raw, "model_id") => AnalyzeResult(out).modelId = Attr(raw, "model_id")
    /\ AnalyzeResult(out).content = AttrOr(raw, "content", Str(<<>>))
    /\ Len(AnalyzeResult(out).pages.l) = Len(GuardedItems(raw, "pages"))
    /\ Len(AnalyzeResult(out).tables.l) = Len(GuardedItems(raw, "tables"))

\* C2: when optional attributes of the upstream result are absent (left out,
\* none null), the Result Adapter of either module does not fail: it returns
\* a result built from the attributes that are present, the absent ones
\* replaced by their empty defaults.
C2_AbsentAttributesDefaulted ==
    ~HasNull(raw) => \A out \in Outcomes : BuiltFromPresent(out)

\* the documents of the input whose fields the Field Mapper maps, when the
\* complete module processes the input without falling back to the mock data
MappedDocuments ==
    IF complete_raises(raw) THEN {}
    ELSE {i \in DOMAIN TruthyItems(raw, "documents") :
            Truthy(Attr(TruthyItems(raw, "documents")[i], "fields"))}

InputFields(i) == Attr(TruthyItems(raw, "documents")[i], "fields").items

OutputFields(out, i) == Documents(out)[i].fields.items

PnlNames ==
    {pnl_total_revenue, pnl_cost_of_goods_sold, pnl_gross_profit,
     pnl_operating_expenses, pnl_net_income, pnl_other_income, pnl_other_expenses}

T_totalrevenueytd == <<"t","o","t","a","l","r","e","v","e","n","u","e","y","t","d">>

\* the canonical names the Field Mapper is to give the sampled vendor names
ExpectedCanonical(n) ==
    CASE n = T_COGS -> pnl_cost_of_goods_sold
      [] n = T_Revenue -> pnl_total_revenue
      [] n = T_revenue -> T_revenue
      [] n = T_TotalRevenueYTD -> T_totalrevenueytd
      [] n = T_Foo -> T_foo
      [] n = T_foo -> T_foo
      [] n = T_Sales -> pnl_total_revenue
      [] n = T_OpEx -> pnl_operating_expenses
      [] n = T_TotalRevenue -> pnl_total_revenue
      [] n = T_Update -> <<"u","p","d","a","t","e">>
      [] n = T_glossary -> T_glossary

\* C3: the Field Mapper is total and exact: every vendor field name is mapped
\* to alias[n] when n is exactly a key of the alias table and to lower(n)
\* otherwise; the output keys are pnl_* names or lower-cased vendor names, and
\* "revenue" and "TotalRevenueYTD" are not mapped to a pnl_* name.
C3_FieldMapperExact ==
    completeOut # NotRun =>
        \A i \in MappedDocuments :
            /\ DictKeys(OutputFields(completeOut, i))
                 = {ExpectedCanonical(n) : n \in DictKeys(InputFields(i))}
            /\ \A k \in DictKeys(OutputFields(completeOut, i)) :
                   k \in PnlNames \/ \E n \in DictKeys(InputFields(i)) : k = Lower(n)
            /\ \A n \in DictKeys(InputFields(i)) :
                   n \notin DictKeys(pnl_field_mapping) =>
                       /\ Lower(n) \in DictKeys(OutputFields(completeOut, i))
                       /\ Lower(n) \notin PnlNames

\* C3 witness: a document with the vendor names "revenue" and "COGS" was
\* mapped: "revenue" kept lower-cased, "COGS" renamed.
C3_Witness ==
    /\ completeOut # NotRun
    /\ \E i \in MappedDocuments :
           /\ {T_revenue, T_COGS} \subseteq DictKeys(InputFields(i))
           /\ {T_revenue, pnl_cost_of_goods_sold}
                = DictKeys(OutputFields(completeOut, i))

\* the input has a document with a field COGS whose content and string value
\* are "$5,000" and that has no numeric value
HasCogsScenario ==
    /\ HasAttr(raw, "documents") /\ Truthy(Attr(raw, "documents"))
    /\ \E i \in DOMAIN Attr(raw, "documents").l :
         LET doc == Attr(raw, "documents").l[i]
         IN  /\ HasAttr(doc, "fields") /\ Truthy(Attr(doc, "fields"))
             /\ \E j \in DOMAIN Attr(doc, "fields").items :
                  LET item == Attr(doc, "fields").items[j]
                  IN  /\ item[1] = T_COGS
                      /\ AttrOr(item[2], "content", None) = Str(T_5000_dollars)
                      /\ AttrOr(item[2], "value_string", None) = Str(T_5000_dollars)
                      /\ ~HasAttr(item[2], "value_number")

\* some document of the output has the field named key with this type and value
HasField(out, key, type, value) ==
    /\ out.kind = "return"
    /\ \E i \in DOMAIN Documents(out) :
           /\ key \in DictKeys(Documents(out)[i].fields.items)
           /\ DictGet(Documents(out)[i].fields.items, key).type = type
           /\ DictGet(Documents(out)[i].fields.items, key).value = value

\* C4: on the document-analysis path of the application (the router main.py
\* includes), a document field "COGS" with content "$5,000" appears in the
\* output document as pnl_cost_of_goods_sold with value 5000.0 and type
\* currency.
C4_CogsOnMountedPath ==
    (mountedOut # NotRun /\ HasCogsScenario) =>
        HasField(mountedOut, pnl_cost_of_goods_sold, Str(S_currency), PyFloat(5000, 1))

\* a string that is a negative amount: a minus sign, then digits
IsNegativeAmount(s) ==
    /\ Strip(s) # <<>>
    /\ Head(Strip(s)) = "-"
    /\ \E i \in DOMAIN s : s[i] \in Range(DigitChars)

\* a value that is a number below zero
IsNegativeNumber(v) == IsNumber(v) /\ IsFinite(v.x) /\ v.x.n < 0

\* a vendor field without value_number whose value string is a negative amount
NegativeField(field) ==
    /\ ~HasAttr(field, "value_number") \/ Attr(field, "value_number") = None
    /\ HasAttr(field, "value_string")
    /\ Attr(field, "value_string").t = "str"
    /\ IsNegativeAmount(Attr(field, "value_string").s)

\* the field has a native numeric attribute: value_number, not None (0 counts)
NativeNumber(f) == HasAttr(f, "value_number") /\ Attr(f, "value_number") # None

\* the number the sampled unsigned field strings hold, None for those that
\* hold none
StringNumber(s) ==
    CASE s = Str(T_1234_50_dollars) -> PyFloat(123450, 100)
      [] s = Str(T_5000_dollars) -> PyFloat(5000, 1)
      [] OTHER -> None

ParsedString(f) ==
    IF HasAttr(f, "value_string") THEN StringNumber(Attr(f, "value_string")) ELSE None

\* the entries of document i whose canonical name no later entry takes over
LastEntries(i) ==
    {j \in DOMAIN InputFields(i) :
        \A k \in DOMAIN InputFields(i) :
            k > j => ExpectedCanonical(InputFields(i)[k][1])
                       # ExpectedCanonical(InputFields(i)[j][1])}

OutputField(i, j) ==
    DictGet(OutputFields(completeOut, i), ExpectedCanonical(InputFields(i)[j][1]))

\* C5: numeric coercion of a document field follows a fixed precedence: a
\* value_number that is not None (0 included) is used as-is; otherwise the
\* number in a non-empty value_string, thousands separators removed; when
\* neither gives a number the field keeps its raw content as value, and the
\* coercion raises nothing to the caller.
C5_CoercionPrecedence ==
    completeOut # NotRun =>
        /\ completeOut.kind = "return"
        /\ \A i \in MappedDocuments : \A j \in LastEntries(i) :
             LET f == InputFields(i)[j][2]
                 o == OutputField(i, j)
             IN  /\ NativeNumber(f) => o.value = Attr(f, "value_number")
                 /\ (~NativeNumber(f) /\ ParsedString(f) # None) =>
                        o.value = ParsedString(f) /\ o.type = Str(S_currency)
                 /\ (~NativeNumber(f) /\ ParsedString(f) = None /\ ~NegativeField(f)) =>
                        o.value = Attr(f, "content")
                 /\ NegativeField(f) =>
                        IsNumber(o.value) /\ o.type = Str(S_currency)

\* C5 witness: a field with value_number 0 and value_string "$1,234.50" was
\* coerced to 0.
C5_Witness ==
    /\ completeOut # NotRun
    /\ \E i \in MappedDocuments : \E j \in LastEntries(i) :
         /\ AttrOr(InputFields(i)[j][2], "value_number", None) = PyFloat(0, 1)
         /\ AttrOr(InputFields(i)[j][2], "value_string", None) = Str(T_1234_50_dollars)
         /\ OutputField(i, j).value = PyFloat(0, 1)

\* the texts of the cells right of column 0 in the only table of the input
ValueTexts ==
    {Attr(c, "content") :
        c \in {Attr(Attr(raw, "tables").l[1], "cells").l[k] :
                 k \in 2..Len(Attr(Attr(raw, "tables").l[1], "cells").l)}}

RowLabel == Attr(Attr(Attr(raw, "tables").l[1], "cells").l[1], "content").s

\* the fields of the only document of the output
OnlyFields(out) == Documents(out)[1].fields.items

\* C6: coercing "$1,234.50" gives 1234.50 and coercing "abc" gives no number,
\* for the value_string of a document field and for the text of a table cell.
C6_CoercionRoundTrip ==
    completeOut # NotRun =>
        /\ \A i \in MappedDocuments : \A j \in LastEntries(i) :
             LET f == InputFields(i)[j][2]
                 o == OutputField(i, j)
             IN  /\ (~NativeNumber(f) /\ HasAttr(f, "value_string")
                       /\ Attr(f, "value_string") = Str(T_1234_50_dollars)) =>
                        o.value = PyFloat(123450, 100)
                 /\ (~NativeNumber(f) /\ HasAttr(f, "value_string")
                       /\ Attr(f, "value_string") = Str(T_abc)) =>
                        ~IsNumber(o.value) /\ o.type = Str(S_string)
        /\ (raw \in SingleRowInputs /\ RowLabel = T_Revenue) =>
             /\ (ValueTexts \subseteq {Str(T_1234_50_dollars), Str(T_abc)}
                   /\ Str(T_1234_50_dollars) \in ValueTexts) =>
                    /\ DictKeys(OnlyFields(completeOut)) = {pnl_total_revenue}
                    /\ DictGet(OnlyFields(completeOut), pnl_total_revenue).value
                         = PyFloat(123450, 100)
             /\ ValueTexts = {Str(T_abc)} => OnlyFields(completeOut) = <<>>

\* C6 witness: a Revenue row with the cells "$1,234.50" and "abc" gave
\* pnl_total_revenue = 1234.5.
C6_Witness ==
    /\ completeOut # NotRun
    /\ raw \in SingleRowInputs
    /\ RowLabel = T_Revenue
    /\ ValueTexts = {Str(T_1234_50_dollars), Str(T_abc)}
    /\ DictGet(OnlyFields(completeOut), pnl_total_revenue).value = PyFloat(123450, 100)

\* C7: in every document of every output, of either module, every field of
\* type currency has a value that is a finite number (a failed extraction
\* gives type string); for the fields of the Field Mapper and those of the
\* Table Fallback Extractor (cell texts such as "nan" included).
C7_CurrencyIsFinite ==
    \A out \in Outcomes :
        out.kind = "return" =>
           \A i \in DOMAIN Documents(out) :
             \A k \in DictKeys(Documents(out)[i].fields.items) :
                 LET o == DictGet(Documents(out)[i].fields.items, k)
                 IN  o.type = Str(S_currency) => IsNumber(o.value) /\ IsFinite(o.value.x)

\* the number the sampled cell texts hold, None for those that hold none
CellNumber(text) ==
    CASE text = Str(T_100000_dollars) -> PyFloat(100000, 1)
      [] text = Str(T_1234_50_dollars) -> PyFloat(123450, 100)
      [] text = Str(T_0_00_dollars) -> PyFloat(0, 1)
      [] text = Str(T_minus_500) -> PyFloat(-500, 1)
      [] text = Str(T_50000_dollars) -> PyFloat(50000, 1)
      [] text = Str(T_10000_dollars) -> PyFloat(10000, 1)
      [] OTHER -> None

\* the canonical name the Table Fallback Extractor gives the sampled row labels
LabelField(label) ==
    CASE label = T_Revenue -> pnl_total_revenue
      [] label = T_Net_Income -> pnl_net_income
      [] label = T_COGS -> pnl_cost_of_goods_sold
      [] label = T_Gross_Profit -> pnl_gross_profit
      [] label = T_Total_Expenses -> pnl_operating_expenses
      [] label = T_SALES -> pnl_total_revenue
      [] label = T_Cost_of_Sales -> pnl_total_revenue
      [] label = T_Gross_Profit_on_Sales -> pnl_total_revenue
      [] label = T_Operating_Income -> pnl_total_revenue
      [] label = T_Operating_Expenses -> pnl_operating_expenses
      [] label = T_Net_Profit -> pnl_net_income
      [] OTHER -> None

\* the cell of the only row that is in this column, for a column that has one
CellInColumn(column) ==
    CHOOSE c \in Range(Attr(Attr(raw, "tables").l[1], "cells").l) :
        Attr(c, "column_index") = PyInt(column)

ValueColumns ==
    {column \in 1..(MaxCol + 1) :
        \E c \in Range(Attr(Attr(raw, "tables").l[1], "cells").l) :
            Attr(c, "column_index") = PyInt(column)}

\* the value columns whose text holds a number
NumericColumns ==
    {column \in ValueColumns : CellNumber(Attr(CellInColumn(column), "content")) # None}

Rightmost(columns) == CHOOSE a \in columns : \A b \in columns : b <= a

\* C8: in the Table Fallback Extractor the value of a row is the number of
\* the column with the highest column index whose text coerces (columns are
\* scanned rightmost first, those that do not coerce are skipped); a row
\* Revenue | $100,000 gives pnl_total_revenue = 100000.0.  Stated for rows
\* whose cells hold no "nan".
C8_RightmostNumericColumn ==
    (completeOut # NotRun /\ raw \in SingleRowInputs /\ Str(T_nan) \notin ValueTexts) =>
        /\ (NumericColumns # {} /\ LabelField(RowLabel) # None) =>
              /\ DictKeys(OnlyFields(completeOut)) = {LabelField(RowLabel)}
              /\ DictGet(OnlyFields(completeOut), LabelField(RowLabel)).value
                   = CellNumber(Attr(CellInColumn(Rightmost(NumericColumns)), "content"))
        /\ NumericColumns = {} => OnlyFields(completeOut) = <<>>
        /\ (RowLabel = T_Revenue /\ ValueTexts = {Str(T_100000_dollars)}) =>
              DictGet(OnlyFields(completeOut), pnl_total_revenue).value
                = PyFloat(100000, 1)

\* C8 witness: a Revenue row with "$100,000" in column 1 and "$0.00" in
\* column 2 gave the value of column 2.
C8_Witness ==
    /\ completeOut # NotRun
    /\ raw \in SingleRowInputs
    /\ RowLabel = T_Revenue
    /\ NumericColumns = {1, 2}
    /\ Attr(CellInColumn(1), "content") = Str(T_100000_dollars)
    /\ Attr(CellInColumn(2), "content") = Str(T_0_00_dollars)
    /\ DictGet(OnlyFields(completeOut), pnl_total_revenue).value = PyFloat(0, 1)

\* no document, one table with the rows Revenue | $50,000 and
\* Net Income | $10,000
EmptyDocumentsScenario ==
    FullResult(<<>>,
               <<TableOf(PyInt(2),
                         List(RowsCells(<<[row |-> 0, label |-> T_Revenue,
                                           text |-> T_50000_dollars],
                                          [row |-> 1, label |-> T_Net_Income,
                                           text |-> T_10000_dollars]>>)))>>,
               <<>>, <<>>)

\* C9: when the upstream result has no document, the output has exactly one
\* document, whose fields are the table extractor's; for one table with the
\* rows ("Revenue", "$50,000") and ("Net Income", "$10,000") that document
\* has pnl_total_revenue = 50000.0 and pnl_net_income = 10000.0.
C9_SyntheticDocument ==
    raw = EmptyDocumentsScenario =>
        \A out \in Outcomes :
            /\ out.kind = "return"
            /\ Len(Documents(out)) = 1
            /\ {pnl_total_revenue, pnl_net_income} \subseteq DictKeys(OnlyFields(out))
            /\ DictGet(OnlyFields(out), pnl_total_revenue).value = PyFloat(50000, 1)
            /\ DictGet(OnlyFields(out), pnl_net_income).value = PyFloat(10000, 1)

\* C10: a table cell "$0.00" is a valid zero: a classifying row whose value
\* cell is "$0.00" gives the canonical field with value 0.0, and is not
\* treated as a row without value.
C10_ZeroIsAValue ==
    (raw \in SingleRowInputs /\ LabelField(RowLabel) # None
       /\ ValueTexts = {Str(T_0_00_dollars)}) =>
        \A out \in Outcomes :
            /\ out.kind = "return"
            /\ LabelField(RowLabel) \in DictKeys(OnlyFields(out))
            /\ DictGet(OnlyFields(out), LabelField(RowLabel)).value = PyFloat(0, 1)

\* the cells of the only table of the input
TableCells == Attr(Attr(raw, "tables").l[1], "cells").l

RowIndices == {Attr(c, "row_index").x.n : c \in Range(TableCells)}

\* the cell of this row and column, for a position that has one
CellAt(row, column) ==
    CHOOSE c \in Range(TableCells) :
        Attr(c, "row_index") = PyInt(row) /\ Attr(c, "column_index") = PyInt(column)

\* the rows, label in column 0 and text in column 1, that classify to the
\* canonical field key and hold a number
ClassifyingRows(key) ==
    {r \in RowIndices :
        /\ LabelField(Attr(CellAt(r, 0), "content").s) # None
        /\ LabelField(Attr(CellAt(r, 0), "content").s) = key
        /\ CellNumber(Attr(CellAt(r, 1), "content")) # None}

Lowest(rows) == CHOOSE a \in rows : \A b \in rows : a <= b

\* C11: in the Table Fallback Extractor the first match per field wins, rows
\* taken in ascending row index: the value of each canonical field is that of
\* the lowest-index row that classifies to it, in whatever order the cells
\* are listed.
C11_FirstMatchWins ==
    (completeOut # NotRun /\ raw \in MultiRowInputs) =>
        \A key \in PnlNames :
            ClassifyingRows(key) # {} =>
                /\ key \in DictKeys(OnlyFields(completeOut))
                /\ DictGet(OnlyFields(completeOut), key).value
                     = CellNumber(Attr(CellAt(Lowest(ClassifyingRows(key)), 1), "content"))

\* C12: a table row with a numeric value is classified into at most one
\* canonical field, that of the first keyword set, in the priority order
\* revenue > cost of goods sold > gross profit > operating expenses > net
\* income, that its lower-cased column-0 label matches ("net" barring the
\* first set); a row that matches none, has no column 0 or no numeric value
\* contributes nothing.
C12_ClassificationPriority ==
    (completeOut # NotRun /\ raw \in ClassifyInputs) =>
        LET label == Attr(TableCells[1], "content").s
            classified ==
                /\ Attr(TableCells[1], "column_index") = PyInt(0)
                /\ CellNumber(Attr(TableCells[2], "content")) # None
                /\ LabelField(label) # None
        IN  IF classified
            THEN /\ DictKeys(OnlyFields(completeOut)) = {LabelField(label)}
                 /\ DictGet(OnlyFields(completeOut), LabelField(label)).value
                      = CellNumber(Attr(TableCells[2], "content"))
            ELSE OnlyFields(completeOut) = <<>>

\* C12 witness: the row Cost of Sales | $100,000, which matches the first and
\* the second keyword set, gave pnl_total_revenue alone.
C12_Witness ==
    /\ completeOut # NotRun
    /\ raw \in ClassifyInputs
    /\ Attr(TableCells[1], "content") = Str(T_Cost_of_Sales)
    /\ Attr(TableCells[1], "column_index") = PyInt(0)
    /\ DictKeys(OnlyFields(completeOut)) = {pnl_total_revenue}

\* the input has its documents attribute, a list, and no document in it
\* carries a field: there is no document, or every document has all its
\* attributes and an empty fields dict
NoStructuredFields ==
    /\ HasAttr(raw, "documents")
    /\ Attr(raw, "documents").t = "list"
    /\ \A d \in Range(Attr(raw, "documents").l) :
           /\ {"doc_type", "confidence", "fields"} \subseteq DOMAIN d.a
           /\ Attr(d, "fields") = Dict(<<>>)

\* the only table of the input is the row Revenue | $100,000
RevenueRowOnly ==
    /\ HasAttr(raw, "tables")
    /\ Attr(raw, "tables").t = "list"
    /\ Len(Attr(raw, "tables").l) = 1
    /\ HasAttr(Attr(raw, "tables").l[1], "cells")
    /\ Attr(Attr(raw, "tables").l[1], "cells").t = "list"
    /\ Len(TableCells) = 2
    /\ \A i \in 1..2 :
           /\ HasAttr(TableCells[i], "content")
           /\ Attr(TableCells[i], "row_index") = PyInt(0)
           /\ Attr(TableCells[i], "column_index") = PyInt(i - 1)
    /\ Attr(TableCells[1], "content") = Str(T_Revenue)
    /\ Attr(TableCells[2], "content") = Str(T_100000_dollars)

\* some field of some document of the output has this value
SomeFieldValue(out, value) ==
    \E i \in DOMAIN Documents(out) :
        \E k \in DictKeys(Documents(out)[i].fields.items) :
            DictGet(Documents(out)[i].fields.items, k).value = value

\* C13: the Table Fallback Extractor runs exactly when the Field Mapper
\* yields no fields: with no structured field in the input (no document, or
\* documents that carry no fields) the table row Revenue | $100,000 gives the
\* output field pnl_total_revenue = 100000.0, and when a document field was
\* mapped no value of the table is in the output.
C13_FallbackExactlyWhenNoFields ==
    /\ (~HasNull(raw) /\ NoStructuredFields /\ RevenueRowOnly) =>
          \A out \in Outcomes :
              HasField(out, pnl_total_revenue, Str(S_currency), PyFloat(100000, 1))
    /\ (completeOut # NotRun /\ RevenueRowOnly
          /\ \E i \in MappedDocuments : InputFields(i) # <<>>) =>
          ~SomeFieldValue(completeOut, PyFloat(100000, 1))

\* the only row of the table classifies: its column-0 label matches a keyword
\* set and one of its value cells holds a number
RowClassifies == LabelField(RowLabel) # None /\ NumericColumns # {}

\* C14: the Table Fallback Extractor never raises: for a table whose cells
\* hold any text (empty and blank included) it returns a mapping, which is
\* empty if and only if no row classifies.  Stated for the one-row tables
\* whose cells hold no "nan", for the extractors of both modules.
C14_ExtractorTotal ==
    (raw \in SingleRowInputs /\ Str(T_nan) \notin ValueTexts) =>
        \A out \in Outcomes :
            /\ out.kind = "return"
            /\ Len(Documents(out)) = 1
            /\ (OnlyFields(out) = <<>>) <=> ~RowClassifies

\* C15: the pipeline never raises for data-shape irregularities: for an
\* upstream result with a section missing or an attribute null, either
\* _process_azure_result returns a result with one page and one table per
\* page and table of the input (none for a missing or null section) and with
\* no substituted data (its content is not that of the mock data).
C15_NoErrorNoSubstitution ==
    \A out \in Outcomes :
        /\ out.kind = "return"
        /\ Len(AnalyzeResult(out).pages.l) = Len(GuardedItems(raw, "pages"))
        /\ Len(AnalyzeResult(out).tables.l) = Len(GuardedItems(raw, "tables"))
        /\ AnalyzeResult(out).content # Str(S_mock_content)

Responses == {completeResponse, mountedResponse} \ {NotRun}

\* C16: every document-analysis request ends in one of two outcomes: the
\* normalized result derived from the upstream result, or an error; when the
\* call of the document-understanding service fails the caller receives the
\* error, and a response that is returned carries data derived from the
\* upstream result (not the mock content).  Stated for the requests that get
\* as far as the call: credentials set, one file that decodes.
C16_ResultOrUpstreamError ==
    (request # NoRequest /\ request.configured /\ request.files = <<"valid">>) =>
        \A response \in Responses :
            /\ request.upstream = "failure" => response.kind = "raise"
            /\ response.kind = "return" =>
                  /\ request.upstream = "result"
                  /\ response.value.data.analyzeResult.content # Str(S_mock_content)

C18_FieldRecordComplete ==
    \A out \in Outcomes :
        out.kind = "return" =>
            \A i \in DOMAIN Documents(out) :
                /\ {"docType", "fields", "confidence"} \subseteq DOMAIN Documents(out)[i]
                /\ \A k \in DictKeys(Documents(out)[i].fields.items) :
                       {"type", "value", "valueString", "confidence", "content"}
                           \subseteq DOMAIN DictGet(Documents(out)[i].fields.items, k)

\* the last request was a GET of an id that an upload with the same token
\* returned, and the database did not fail under it
GetOfOwnUpload ==
    /\ finRequest.op = "get"
    /\ <<finRequest.token, finRequest.statement_id>> \in returned_ids
    /\ ~finRequest.db_fails

\* C19: after an upload answered 200, a GET of the returned id with the same
\* token answers 200 with that id and with file_name, statement_type and
\* parsed_data, whatever SKIP_DB and SKIP_SERVICE_CHECKS are.
C19_GetAfterUpload ==
    GetOfOwnUpload =>
        /\ finResponse.kind = "return"
        /\ finResponse.value.id = finRequest.statement_id
        /\ {"file_name", "statement_type", "parsed_data"} \subseteq DOMAIN finResponse.value

\* the same with the identity provider consulted (SKIP_SERVICE_CHECKS off)
GetAfterUploadWithServiceChecks ==
    env.SKIP_SERVICE_CHECKS = "1" \/ C19_GetAfterUpload

\* the last request was a parse of a statement that existed and belonged to
\* the user the request resolved to
ParseOfOwnStatement ==
    /\ finRequest.op = "parse"
    /\ finRequest.user.ok
    /\ finRequest.statement_id \in DOMAIN stored_before
    /\ stored_before[finRequest.statement_id].user_id = finRequest.user.id

\* the parse answered 200 with the id and the placeholder, and the stored
\* statement holds the parsed_data of the answer
ParseAnswered ==
    /\ finResponse.kind = "return"
    /\ finResponse.value.id = finRequest.statement_id
    /\ finResponse.value.parsed_data.status = "parsed"
    /\ Stored[finRequest.statement_id].parsed_data = finResponse.value.parsed_data

\* the parsed_data the last parse of a statement answered with, null if it
\* was never parsed
LastParsed(id) == IF id \in DOMAIN parse_results THEN parse_results[id] ELSE None

\* every stored statement holds the parsed_data of its last parse, and a GET
\* that answers 200 returns it
ParsedDataKept ==
    /\ \A id \in DOMAIN Stored : Stored[id].parsed_data = LastParsed(id)
    /\ (finRequest.op = "get" /\ finResponse.kind = "return") =>
           finResponse.value.parsed_data = LastParsed(finRequest.statement_id)

\* a statement with its parsed_data blanked: its other fields
OtherFields(statement) == [statement EXCEPT !.parsed_data = None]

\* a parse leaves the set of statements, every other statement and every
\* other field of its own statement as they were, and a parse that does not
\* answer 200 leaves everything as it was
ParseTouchesOnlyParsedData ==
    finRequest.op = "parse" =>
        /\ DOMAIN Stored = DOMAIN stored_before
        /\ \A id \in DOMAIN Stored :
               /\ OtherFields(Stored[id]) = OtherFields(stored_before[id])
               /\ (id # finRequest.statement_id \/ finResponse.kind # "return") =>
                      Stored[id] = stored_before[id]

ParseBesideUnparsed ==
    /\ finRequest.op = "parse"
    /\ finResponse.kind = "return"
    /\ \E id \in DOMAIN Stored : Stored[id].parsed_data = None

HasKeyword(n) ==
    n \in {T_Revenue, T_revenue, T_TotalRevenueYTD, T_TotalRevenue, T_Update, T_glossary}

\* sampled aliases of the alias table that contain no keyword
AliasWithoutKeyword(n) == n \in {T_COGS, T_Sales, T_OpEx}

\* sampled names that contain a keyword inside a longer name
KeywordInLongerName(n) == n \in {T_TotalRevenueYTD, T_Update, T_glossary}

\* the vendor names of the documents of the input that have fields
DocumentFieldNames ==
    IF ~HasAttr(raw, "documents") \/ ~Truthy(Attr(raw, "documents")) THEN {}
    ELSE UNION {DictKeys(Attr(d, "fields").items) :
                  d \in {x \in Range(Attr(raw, "documents").l) :
                           HasAttr(x, "fields") /\ Truthy(Attr(x, "fields"))}}

\* the keys of the one document the mounted module puts out
MountedKeys == DictKeys(OnlyFields(mountedOut))

\* a vendor name is a key of the mounted output exactly when it holds a
\* keyword, and when some name does the keys are those vendor names, unrenamed
MountedFilterByKeyword ==
    (mountedOut # NotRun /\ mountedOut.kind = "return") =>
        /\ \A n \in DocumentFieldNames : n \in MountedKeys <=> HasKeyword(n)
        /\ (\E n \in DocumentFieldNames : HasKeyword(n)) =>
               MountedKeys = {n \in DocumentFieldNames : HasKeyword(n)}

\* both modules have processed one document with one vendor field, no table
OneVendorField ==
    /\ raw \in KeywordInputs
    /\ Len(InputFields(1)) = 1
    /\ completeOut # NotRun /\ completeOut.kind = "return"
    /\ mountedOut # NotRun /\ mountedOut.kind = "return"

TheVendorName == InputFields(1)[1][1]

\* the two modules put the document's field out under different keys
KeysDiffer == DictKeys(OutputFields(completeOut, 1)) # MountedKeys

ReachesUpstream ==
    /\ request # NoRequest
    /\ request.configured
    /\ request.files = <<"valid">>

\* the upstream call answered and the processing of its result raises
ProcessingFails ==
    /\ ReachesUpstream
    /\ request.upstream = "result"
    /\ (complete_len_documents_raises(raw) \/ complete_raises(raw))

\* one of the failures of a request of the complete module
CompleteRequestFails ==
    /\ request # NoRequest
    /\ \/ ~request.configured
       \/ request.files = <<>>
       \/ request.files = <<"bad padding">>
       \/ request.upstream = "failure"
       \/ ProcessingFails

\* the keys by which a response could be told from a real extraction
ResponseKeys(response) ==
    <<DOMAIN response.value, DOMAIN response.value.data,
      DOMAIN response.value.data.analyzeResult>>

\* C22: in the complete module no request ends with an error status; a
\* request without credentials, without a file, with a file that does not
\* decode, with a failing upstream call or with a result whose processing
\* raises is answered with the fixed mock response and success = true; and
\* every response, mock or real, has the same keys (no marker).
C22_DegradesToMock ==
    completeResponse # NotRun =>
        /\ completeResponse.kind = "return"
        /\ completeResponse.value.success = TRUE
        /\ ResponseKeys(completeResponse)
             = <<{"success", "data"},
                 {"status", "createdDateTime", "lastUpdatedDateTime", "analyzeResult"},
                 {"apiVersion", "modelId", "stringIndexType", "content", "pages",
                  "tables", "keyValuePairs", "documents"}>>
        /\ CompleteRequestFails =>
               completeResponse.value = [success |-> TRUE, data |-> get_mock_response_data]

\* C22 witness: the upstream call answered, the processing of its result
\* raised, and the response is the mock response
C22_Witness ==
    /\ ProcessingFails
    /\ completeResponse # NotRun
    /\ completeResponse.kind = "return"
    /\ completeResponse.value.data.analyzeResult.content = Str(S_mock_content)

\* the last request was handled by a handler of the in-memory store
InMemoryRequest(op) ==
    /\ financial_SKIP_DB(env)
    /\ finRequest.op = op
    /\ finRequest.user.ok

\* the statements of the in-memory store that belong to the caller
OwnStatements ==
    {MEM_STATEMENTS[id] :
        id \in {i \in DOMAIN MEM_STATEMENTS :
                  MEM_STATEMENTS[i].user_id = finRequest.user.id}}

\* the id of the last request is unknown or names another user's statement
NotOwnStatement ==
    \/ finRequest.statement_id \notin DOMAIN stored_before
    \/ stored_before[finRequest.statement_id].user_id # finRequest.user.id

\* C23: in SKIP_DB mode, after any sequence of upload, list, get and parse
\* requests, a listing answers exactly the stored statements whose user_id is
\* the caller's id, and a get or parse of an unknown id or of another user's
\* statement answers 404 and leaves the store as it was.
C23_StoreIsolatesUsers ==
    /\ InMemoryRequest("list") => finResponse = Return(OwnStatements)
    /\ \A op \in {"get", "parse"} :
           (InMemoryRequest(op) /\ NotOwnStatement) =>
               /\ finResponse = RaiseHTTP(404)
               /\ MEM_STATEMENTS = stored_before

\* C23 witness: a listing answers with the caller's statement while the
\* store holds a statement of another user
C23_Witness ==
    /\ InMemoryRequest("list")
    /\ finResponse.kind = "return"
    /\ finResponse.value # {}
    /\ \E id \in DOMAIN MEM_STATEMENTS :
           MEM_STATEMENTS[id].user_id # finRequest.user.id

\* a parse of another user's statement was answered
ParseOfForeignStatement ==
    /\ InMemoryRequest("parse")
    /\ finRequest.statement_id \in DOMAIN stored_before
    /\ stored_before[finRequest.statement_id].user_id # finRequest.user.id

\* the calls of one method that the last /memory request sent to the service
CallsSent(methods) == {i \in DOMAIN zep_calls : zep_calls[i].method \in methods}

\* the last /memory request was handled for an authenticated caller
MemoryRequestOf(ops) ==
    /\ memRequest.op \in ops
    /\ memRequest.user.ok

\* the body of every POST and PUT names the caller as metadata.user_id
SendsCallerAsOwner ==
    MemoryRequestOf({"create", "update"}) =>
        \A i \in CallsSent({"POST", "PUT"}) :
            /\ "metadata" \in DOMAIN zep_calls[i].json
            /\ zep_calls[i].json.metadata.user_id = memRequest.user.id

\* every memory of the service names its creator as metadata.user_id
OwnerKept ==
    \A i \in DOMAIN zep :
        /\ "metadata" \in DOMAIN zep[i]
        /\ "user_id" \in DOMAIN zep[i].metadata
        /\ zep[i].metadata.user_id = creators[i]

\* a request for another user's memory, which the service returned, got 403
\* and sent no PUT or DELETE
ForeignRefused ==
    (/\ MemoryRequestOf({"get", "update", "delete"})
     /\ ~memRequest.zep_fails
     /\ memRequest.memory_id \in DOMAIN zep
     /\ creators[memRequest.memory_id] # memRequest.user.id)
    => /\ memResponse = RaiseHTTP(403)
       /\ CallsSent({"PUT", "DELETE"}) = {}

\* C24: a memory is read, changed or deleted only by its owner: a request for
\* another user's memory answers 403 and sends no PUT or DELETE, every POST and
\* PUT carries metadata.user_id equal to the caller's id, and so no memory ever
\* changes its owner.
C24_OwnerOnly == ForeignRefused /\ SendsCallerAsOwner /\ OwnerKept

\* an update that names only new content sends a PUT without metadata
ContentOnlyUpdate ==
    /\ MemoryRequestOf({"update"})
    /\ \E i \in CallsSent({"PUT"}) : "metadata" \notin DOMAIN zep_calls[i].json

\* with a service whose PUT merges, the owner is kept and foreign requests are
\* refused
OwnerKeptWhenMerged == zep_put = "merge" => OwnerKept /\ ForeignRefused

\* a request for another user's memory was refused
ForeignRequestRefused ==
    /\ MemoryRequestOf({"get", "update", "delete"})
    /\ memRequest.memory_id \in DOMAIN zep
    /\ creators[memRequest.memory_id] # memRequest.user.id
    /\ memResponse = RaiseHTTP(403)

\* the auth users without a row of the same id in the users table
Orphans(auth, table) == {u \in auth : ~\E r \in table : r.id = u.id}

\* the auth users without a row that the last signup left behind
NewOrphans ==
    Orphans(auth_users, users) \ Orphans(signupRequest.auth_before, signupRequest.users_before)

SignupErrored ==
    /\ signupRequest.op = "signup"
    /\ signupResponse.kind = "raise"

SignupReturnedTokens ==
    /\ signupRequest.op = "signup"
    /\ signupResponse.kind = "return"

\* the last signup found its email in the users table
EmailWasRegistered ==
    /\ signupRequest.op = "signup"
    /\ \E r \in signupRequest.users_before : r.email = signupRequest.email

\* a registered email is answered 400 and no auth user is created
RegisteredEmailRefused ==
    EmailWasRegistered /\ signupResponse # RaiseHTTP(500) =>
        /\ signupResponse = RaiseHTTP(400)
        /\ auth_users = signupRequest.auth_before

\* tokens are returned only when the auth side and the row both exist, or the
\* database is disabled
TokensOnlyWhenBoth ==
    SignupReturnedTokens =>
        \/ db_disabled(env)
        \/ /\ \E r \in users : r.id = signupRequest.id
           /\ env.SKIP_SERVICE_CHECKS = "1" \/ \E u \in auth_users : u.id = signupRequest.id

\* a signup that answered an error, and whose cleanup succeeded, left no auth
\* user without a row
ErrorLeavesNoOrphan ==
    SignupErrored /\ signupRequest.cleanup_ok => NewOrphans = {}

ErrorLeavesNoOrphanWithDatabase == ~db_disabled(env) => ErrorLeavesNoOrphan

\* the insert failed after the auth user was created: 500, the auth user gone
InsertFailureCleanedUp ==
    (/\ SignupErrored
     /\ ~db_disabled(env)
     /\ signupRequest.cleanup_ok
     /\ signupRequest.insert = "fails"
     /\ signupResponse = RaiseHTTP(500))
    => ~\E u \in auth_users : u.id = signupRequest.id

\* a signup with the database disabled answered 500 and left its auth user
SignupErrorLeftAuthUser ==
    /\ SignupErrored
    /\ db_disabled(env)
    /\ \E u \in auth_users : u.id = signupRequest.id

ReturnedDrivers ==
    {i \in DOMAIN driver_calls :
        driver_calls[i].op = "get_driver" /\ driver_calls[i].result.kind = "return"}

\* the calls that raised
RaisedCalls == {i \in DOMAIN driver_calls : driver_calls[i].result.kind = "raise"}

\* every driver get_driver returned has passed the connection test
ReturnedDriversTested == \A i \in ReturnedDrivers : driver_calls[i].result.value.tested

\* after a get_driver call that raised, no driver is retained
NothingRetainedAfterRaise ==
    (driver_calls # <<>> /\ Len(driver_calls) \in RaisedCalls) => Neo4jClient_driver = None

\* the get_driver after a close_driver constructs a new driver
NewDriverAfterClose ==
    \A i \in ReturnedDrivers :
        i > 1 /\ driver_calls[i - 1].op = "close_driver" =>
            /\ driver_calls[i].result.value.tested
            /\ \A j \in ReturnedDrivers :
                   j < i => driver_calls[j].result.value.n < driver_calls[i].result.value.n

\* C26: every driver returned by get_driver has passed the connection test
\* since it was constructed; after a get_driver call that raised no driver is
\* retained; and after close_driver the next get_driver constructs a new driver.
C26_ReturnedDriverTested ==
    ReturnedDriversTested /\ NothingRetainedAfterRaise /\ NewDriverAfterClose

\* a get_driver after a close_driver returned a new, tested driver
ClosedThenNewDriver ==
    \E i \in ReturnedDrivers :
        /\ i > 2
        /\ driver_calls[i - 1].op = "close_driver"
        /\ driver_calls[i - 1].before # None

\* financial.SKIP_DB and postgres.SKIP_DB are the same test
FinancialAndPostgresAgree == financial_SKIP_DB(env) <=> postgres_SKIP_DB(env)

\* C27: for every value of SKIP_DB, auth.db_disabled() is true exactly when
\* financial.SKIP_DB and postgres.SKIP_DB are, so no request is handled with
\* the in-memory statement store while its authentication queries the users
\* table, nor the reverse.
C27_SkipDbAgreed ==
    finRequest.op # "none" =>
        /\ db_disabled(env) <=> financial_SKIP_DB(env)
        /\ db_disabled(env) <=> postgres_SKIP_DB(env)

\* an upload was kept in the in-memory store after get_current_user had looked
\* its user up in the users table
InMemoryUploadAfterDatabaseAuth ==
    /\ finRequest.op = "upload"
    /\ finResponse.kind = "return"
    /\ MEM_STATEMENTS # <<>>
    /\ env.SKIP_SERVICE_CHECKS # "1"
    /\ ~db_disabled(env)

\* every stored statement's file_path names a file with the contents uploaded
\* for it
FilesKept ==
    \A id \in DOMAIN Stored :
        /\ Stored[id].file_path \in DOMAIN uploads
        /\ uploads[Stored[id].file_path] = upload_contents[id]

FailedUpload ==
    /\ finRequest.op = "upload"
    /\ finRequest.user.ok
    /\ finResponse.kind = "raise"

\* a failed upload leaves no file and no record behind
FailedUploadLeavesNothing ==
    FailedUpload =>
        /\ Stored = stored_before
        /\ upload_path(finRequest.user.id, finRequest.file.filename) \notin DOMAIN uploads

\* C28: after any sequence of uploads every stored statement's file_path names
\* an existing file holding the contents of that statement's upload, whether
\* later uploads of the same name by the same user succeeded or failed, and a
\* failed upload leaves no file and no record behind.
C28_FilesKept == FilesKept /\ FailedUploadLeavesNothing

\* a second upload of the same name by the same user replaced the file of the
\* first statement
FileOverwritten ==
    \E id \in DOMAIN Stored :
        /\ Stored[id].file_path \in DOMAIN uploads
        /\ uploads[Stored[id].file_path] # upload_contents[id]

\* a failed upload removed the file of an earlier statement
FileRemoved ==
    /\ FailedUpload
    /\ \E id \in DOMAIN Stored : Stored[id].file_path \notin DOMAIN uploads

\* the output document i has one field per vendor field
OneEntryPerVendorField(i) ==
    Cardinality(DictKeys(OutputFields(completeOut, i))) = Cardinality(DictKeys(InputFields(i)))

\* two distinct vendor names of document i with the same output key
NamesCollapse(i) ==
    \E n, m \in DictKeys(InputFields(i)) : n # m /\ ExpectedCanonical(n) = ExpectedCanonical(m)

\* C29: the Field Mapper loses no vendor field: the output document's fields
\* hold one entry per vendor field, two distinct vendor fields of a document
\* never share an output key.
C29_NoFieldLost ==
    completeOut # NotRun => \A i \in MappedDocuments : OneEntryPerVendorField(i)

\* fields are lost only when two vendor names share an output key
FieldsLostOnlyByCollapse ==
    completeOut # NotRun =>
        \A i \in MappedDocuments : ~NamesCollapse(i) <=> OneEntryPerVendorField(i)

\* TotalRevenue and Sales of one document came out as the one field
\* pnl_total_revenue
RevenueAndSalesCollapsed ==
    /\ completeOut # NotRun
    /\ \E i \in MappedDocuments :
          /\ DictKeys(InputFields(i)) = {T_TotalRevenue, T_Sales}
          /\ Cardinality(DictKeys(OutputFields(completeOut, i))) = 1

\* a field with a negative value string comes out as a negative number
FieldSignKept ==
    completeOut # NotRun =>
        \A i \in MappedDocuments :
            \A k \in DOMAIN InputFields(i) :
                NegativeField(InputFields(i)[k][2]) =>
                    IsNegativeNumber(
                        DictGet(OutputFields(completeOut, i),
                                ExpectedCanonical(InputFields(i)[k][1])).value)

\* the analysed result is one table of one row whose only amount is negative
NegativeRow ==
    /\ raw \in NegativeInputs
    /\ TruthyItems(raw, "tables") # <<>>

\* every row value the two modules take from such a table is a negative number
TableSignKept ==
    NegativeRow =>
        /\ (completeOut # NotRun /\ completeOut.kind = "return") =>
               \A d \in DOMAIN Documents(completeOut) :
                   \A k \in DOMAIN OutputFields(completeOut, d) :
                       IsNegativeNumber(OutputFields(completeOut, d)[k][2].value)
        /\ (mountedOut # NotRun /\ mountedOut.kind = "return") =>
               \A d \in DOMAIN Documents(mountedOut) :
                   \A k \in DOMAIN OutputFields(mountedOut, d) :
                       IsNegativeNumber(OutputFields(mountedOut, d)[k][2].value)

\* C30: numeric coercion keeps the sign: a field whose value string is a
\* negative amount is coerced to a negative number, and a table cell with a
\* negative amount yields a negative row value.
C30_SignKept == FieldSignKept /\ TableSignKept

\* both modules took a negative row value from a table
NegativeRowValues ==
    /\ NegativeRow
    /\ completeOut # NotRun /\ completeOut.kind = "return"
    /\ mountedOut # NotRun /\ mountedOut.kind = "return"
    /\ \E d \in DOMAIN Documents(completeOut) : OutputFields(completeOut, d) # <<>>
    /\ \E d \in DOMAIN Documents(mountedOut) : OutputFields(mountedOut, d) # <<>>
    /\ TableSignKept

\* the field Revenue = "-500" came out as the number 500
SignDropped ==
    /\ completeOut # NotRun
    /\ \E i \in MappedDocuments :
          /\ InputFields(i) # <<>>
          /\ NegativeField(InputFields(i)[1][2])
          /\ Attr(InputFields(i)[1][2], "value_string") = Str(T_minus_500)
          /\ OutputFields(completeOut, i)[1][2].value = PyInt(500)

====
